---- MODULE Spec2Model ----
(***************************************************************************)
(* slgrok: the filtering / tailing engine of the ngrok inspector client.   *)
(*                                                                         *)
(*   InspectorService.get_requests   one fetch, filter, limit              *)
(*   InspectorService.tail_requests  the polling generator                 *)
(*   StatusCodeFilter.matches        the status predicate                  *)
(*                                                                         *)
(* Text (URIs, path patterns, host names) is a tuple of one-character      *)
(* strings, so that the matching functions work on characters as the code  *)
(* does.  The inspector API behind NgrokRepository is the environment: it  *)
(* may answer a fetch with any list of records, or fail.                   *)
(***************************************************************************)
EXTENDS Integers, Sequences, FiniteSets, TLC

VARIABLES
    filters,        \* the RequestFilters handed to the service
    now,            \* the last reading of datetime.now(UTC), in seconds
    pc,             \* tail_requests: where the generator stands
    seen_ids,       \* tail_requests: the local set seen_ids
    requests,       \* tail_requests: the snapshot of the last poll
    filtered,       \* tail_requests: the list the for loop walks
    idx,            \* tail_requests: position of the for loop in filtered
    initial_ids,    \* history: ids of the initial snapshot
    seen_at_fetch,  \* history: seen_ids when the last poll fetched
    poll_yielded,   \* history: records yielded from the last poll
    yielded,        \* history: how often each id was yielded in the run
    fetch_failed,   \* history: a fetch of the run has raised
    slept,          \* history: time.sleep has returned since the last fetch
    rejected_ids,   \* history: ids of new records an earlier poll filtered out
    call,           \* the arguments of the last NgrokRepository.get_requests
    list_pc,        \* get_requests: "idle", "done" or "raised"
    list_source,    \* history: what the inspector held when get_requests ran
    list_fetched,   \* get_requests: the local requests
    list_filtered,  \* get_requests: filtered, before the limit
    list_result,    \* get_requests: the returned list
    m_filter,       \* matches: self
    m_code,         \* matches: status_code
    m_result,       \* matches: Some(the returned value), None before the call
    fn_call,        \* one call of a function: its name and arguments
    fn_result,      \* that call: None before it, Some(its outcome) after
    cli_command,    \* the command run: "list" or "tail"
    cli_options,    \* the options of the command line, as typed
    cli_pc,         \* the command: "start", "built" or "exit" ("none": no command)
    cli_exit,       \* the exit code of the process, None while it runs
    cli_stdout,     \* what console printed
    cli_stderr      \* what err_console printed

vars == <<filters, now, pc, seen_ids, requests, filtered, idx, initial_ids,
          seen_at_fetch, poll_yielded, yielded, fetch_failed, slept,
          rejected_ids, call, list_pc, list_source, list_fetched, list_filtered,
          list_result, m_filter, m_code, m_result, fn_call, fn_result,
          cli_command, cli_options, cli_pc, cli_exit, cli_stdout, cli_stderr>>

tailVars == <<pc, seen_ids, requests, filtered, idx, initial_ids,
              seen_at_fetch, poll_yielded, yielded,
              fetch_failed, slept, rejected_ids, call>>

listVars == <<list_pc, list_source, list_fetched, list_filtered, list_result>>


matchVars == <<m_filter, m_code, m_result>>

callVars == <<fn_call, fn_result>>

cliVars == <<cli_command, cli_options, cli_pc, cli_exit, cli_stdout, cli_stderr>>

\* Optional[T]: None, or Some(x) whose value is Val(o)
None == <<>>

Some(x) == <<x>>

Val(o) == o[1]

----------------------------------------------------------------------------
(* Bounds of the model.                                                    *)

\* longest list of records the inspector holds
MaxSnapshot == 2

\* last reading of the clock
MaxClock == 1

\* longest exact / ranges list of a StatusCodeFilter drawn for matches
MaxList == 2

\* longest base64 payload drawn for _decode_body
MaxPayload == 5

\* longest raw message drawn for _extract_http_body
MaxMessage == 5

\* longest body drawn letter by letter for _format_body
MaxBody == 3

\* largest truncate option drawn for _format_body
MaxTruncate == 3

\* largest limit drawn for get_requests
MaxLimit == 2

----------------------------------------------------------------------------
(* Sequences.                                                              *)

RECURSIVE SeqsUpTo(_, _)
SeqsUpTo(S, n) ==
    IF n = 0 THEN {<<>>}
    ELSE LET shorter == SeqsUpTo(S, n - 1)
         IN  shorter \cup {Append(s, x) : s \in {t \in shorter : Len(t) = n - 1}, x \in S}

InSeq(x, s) == \E i \in 1..Len(s) : s[i] = x

Min(a, b) == IF a <= b THEN a ELSE b

Max(a, b) == IF a >= b THEN a ELSE b

\* s[:n] of Python, n an integer of either sign
Slice(s, n) ==
    IF n >= 0 THEN SubSeq(s, 1, Min(n, Len(s)))
    ELSE SubSeq(s, 1, Max(Len(s) + n, 0))

\* str.lower() on the letters of the model's alphabet
LowerChar(c) ==
    CASE c = "A" -> "a"
      [] c = "B" -> "b"
      [] c = "H" -> "h"
      [] c = "I" -> "i"
      [] c = "J" -> "j"
      [] c = "M" -> "m"
      [] c = "N" -> "n"
      [] c = "O" -> "o"
      [] c = "S" -> "s"
      [] c = "T" -> "t"
      [] c = "X" -> "x"
      [] OTHER -> c

Lower(s) == [i \in 1..Len(s) |-> LowerChar(s[i])]

\* the characters str.strip(), str.lstrip() and str.rstrip() take off
Whitespace == {" ", "\t", "\n", "\r"}

RECURSIVE lstrip(_)
lstrip(s) == IF s # <<>> /\ Head(s) \in Whitespace THEN lstrip(Tail(s)) ELSE s

RECURSIVE rstrip(_)
rstrip(s) ==
    IF s # <<>> /\ s[Len(s)] \in Whitespace
    THEN rstrip(SubSeq(s, 1, Len(s) - 1))
    ELSE s

strip(s) == rstrip(lstrip(s))

\* sub in s, for str
Contains(sub, s) ==
    \E i \in 0..(Len(s) - Len(sub)) : SubSeq(s, i + 1, i + Len(sub)) = sub

----------------------------------------------------------------------------
(* models/requests.py: the record model.                                   *)

\* HttpHeaders.root.get(name, []): the dict lookup, exact in letter case
HeaderGet(headers, name) ==
    IF \E i \in 1..Len(headers) : headers[i][1] = name
    THEN headers[CHOOSE i \in 1..Len(headers) : headers[i][1] = name][2]
    ELSE <<>>

\* str.lower() on the header names of the model
NameLower(name) ==
    CASE name \in {"Host", "HOST", "host"} -> "host"
      [] name \in {"Authorization", "AUTHORIZATION", "authorization"} -> "authorization"
      [] name \in {"X-Api-Key", "X-API-KEY", "x-api-key"} -> "x-api-key"
      [] name \in {"Cookie", "COOKIE", "cookie"} -> "cookie"
      [] name \in {"Set-Cookie", "SET-COOKIE", "set-cookie"} -> "set-cookie"
      [] name \in {"Content-Type", "CONTENT-TYPE", "content-type"} -> "content-type"
      [] name \in {"Accept", "ACCEPT", "accept"} -> "accept"
      [] OTHER -> name

ResponseData(code) == [status_code |-> code]

RequestData(uri, headers) == [uri |-> uri, headers |-> headers]

CapturedRequest(id, tunnel, start, uri, headers, response) ==
    [id |-> id, tunnel_name |-> tunnel, start |-> start,
     request |-> RequestData(uri, headers), response |-> response]

\* "A.io" and "b.io"
HostA == <<"A", ".", "i", "o">>

HostB == <<"b", ".", "i", "o">>

\* The records the inspector may hold.  The id "a" occurs twice: the same
\* exchange before and after its response arrived, or an id the inspector
\* gave to two exchanges.
Catalog ==
    { CapturedRequest("a", "t1", 0, <<"/", "b", "?", "a">>,
                      << <<"Host", <<HostB>> >> >>, None),
      CapturedRequest("a", "t1", 0, <<"/", "b", "?", "a">>,
                      << <<"Host", <<HostB>> >> >>, Some(ResponseData(404))),
      CapturedRequest("b", "t1", 1, <<"/", "a", "/", "b">>,
                      << <<"Host", <<HostA>> >> >>, Some(ResponseData(200))),
      CapturedRequest("c", "t2", 2, <<"/", "a", "[", "#", "b">>,
                      << <<"host", <<HostA>> >>, <<"Host", <<>> >> >>,
                      Some(ResponseData(500))) }

Ids == {r.id : r \in Catalog}

\* every list of records the inspector may hold at the time of a fetch
Sources == SeqsUpTo(Catalog, MaxSnapshot)

IdsOf(s) == {s[i].id : i \in 1..Len(s)}

----------------------------------------------------------------------------
(* models/filters.py                                                       *)

TimeWindow(value, unit) == [value |-> value, unit |-> unit]

\* the timedelta, in seconds
to_timedelta(self) ==
    CASE self.unit = "s" -> self.value
      [] self.unit = "m" -> 60 * self.value
      [] self.unit = "h" -> 3600 * self.value

StatusCodeFilter(exact, ranges, errors_only) ==
    [exact |-> exact, ranges |-> ranges, errors_only |-> errors_only]

\* matches with errors_only looked at only when no code or range is given
matches_ErrorsOnlyWhenBare(self, status_code) ==
    IF self.exact = <<>> /\ self.ranges = <<>>
    THEN ~(self.errors_only /\ status_code < 400)
    ELSE IF InSeq(status_code, self.exact) THEN TRUE
    ELSE LET range_prefix == ToString(status_code \div 100) \o "xx"
         IN  InSeq(range_prefix, self.ranges)

\* matches with a code outside a non-empty exact list rejected at once
matches_ExactThenRanges(self, status_code) ==
    IF self.errors_only /\ status_code < 400 THEN FALSE
    ELSE IF self.exact = <<>> /\ self.ranges = <<>> THEN TRUE
    ELSE IF self.exact # <<>> THEN InSeq(status_code, self.exact)
    ELSE LET range_prefix == ToString(status_code \div 100) \o "xx"
         IN  InSeq(range_prefix, self.ranges)

matches(self, status_code) ==
    IF self.errors_only /\ status_code < 400 THEN FALSE
    ELSE IF self.exact = <<>> /\ self.ranges = <<>> THEN TRUE
    ELSE IF InSeq(status_code, self.exact) THEN TRUE
    ELSE LET range_prefix == ToString(status_code \div 100) \o "xx"
         IN  InSeq(range_prefix, self.ranges)

RequestFilters(limit, status, path_pattern, domain, tunnel_name, time_window) ==
    [limit |-> limit, status |-> status, path_pattern |-> path_pattern,
     domain |-> domain, tunnel_name |-> tunnel_name, time_window |-> time_window]

----------------------------------------------------------------------------
(* services/inspector.py: the predicates.                                  *)

\* urllib.parse._splitparams(url): the text before the first ";" of the last
\* segment of url (of url, when it has no "/")
_splitparams(url) ==
    LET slashes == {i \in 1..Len(url) : url[i] = "/"}
        last == IF slashes = {} THEN 1
                ELSE CHOOSE i \in slashes : \A j \in slashes : j <= i
        semis == {i \in last..Len(url) : url[i] = ";"}
    IN  IF semis = {} THEN url
        ELSE SubSeq(url, 1, (CHOOSE i \in semis : \A j \in semis : i <= j) - 1)

\* urlparse(uri).path of a URI that starts with one "/": urlsplit keeps the
\* text before the first "?" or "#", and urlparse takes the parameters of
\* the last segment off it
UrlPath(uri) ==
    LET cut == {i \in 1..Len(uri) : uri[i] \in {"?", "#"}}
        url == IF cut = {} THEN uri
               ELSE SubSeq(uri, 1, (CHOOSE i \in cut : \A j \in cut : i <= j) - 1)
    IN  _splitparams(url)

\* fnmatch.fnmatch(name, pat), pat over literals, "*" and "?"
RECURSIVE fnmatch(_, _)
fnmatch(name, pat) ==
    IF pat = <<>> THEN name = <<>>
    ELSE IF Head(pat) = "*"
         THEN fnmatch(name, Tail(pat)) \/ (name # <<>> /\ fnmatch(Tail(name), pat))
         ELSE /\ name # <<>>
              /\ Head(pat) = "?" \/ Head(pat) = Head(name)
              /\ fnmatch(Tail(name), Tail(pat))

DecimalDigits == {"0", "1", "2", "3", "4", "5", "6", "7", "8", "9"}

DigitValue(c) == CHOOSE n \in 0..9 : ToString(n) = c

\* a text of decimal digits without its leading zeros
RECURSIVE StripZeros(_)
StripZeros(digits) ==
    IF digits # <<>> /\ Head(digits) = "0" THEN StripZeros(Tail(digits)) ELSE digits

\* a >= b for two numbers written in decimal digits, neither with a leading zero
DecimalGe(a, b) ==
    \/ Len(a) > Len(b)
    \/ /\ Len(a) = Len(b)
       /\ \/ a = b
          \/ \E k \in 1..Len(a) :
                /\ DigitValue(a[k]) > DigitValue(b[k])
                /\ \A h \in 1..(k - 1) : a[h] = b[h]

\* int(digits), for a text short enough to be counted
RECURSIVE IntOf(_)
IntOf(digits) ==
    IF digits = <<>> THEN 0
    ELSE 10 * IntOf(SubSeq(digits, 1, Len(digits) - 1)) + DigitValue(digits[Len(digits)])

\* sre_constants.MAXREPEAT of a 64-bit build, 4294967295, in decimal digits
MAXREPEAT == <<"4", "2", "9", "4", "9", "6", "7", "2", "9", "5">>

\* the repetitions "{n}" of a pattern: where the brace opens and closes
Repeats(pattern) ==
    {ij \in (1..Len(pattern)) \X (1..Len(pattern)) :
        /\ ij[1] + 1 < ij[2]
        /\ pattern[ij[1]] = "{"
        /\ pattern[ij[2]] = "}"
        /\ \A k \in (ij[1] + 1)..(ij[2] - 1) : pattern[k] \in DecimalDigits}

\* where the character set opened by the first "[" starts; past the end of
\* a pattern without one
FirstSet(pattern) ==
    LET sets == {i \in 1..Len(pattern) : pattern[i] = "["}
    IN  IF sets = {} THEN Len(pattern) + 1
        ELSE CHOOSE i \in sets : \A j \in sets : i <= j

\* the repetitions with nothing before them to repeat
BadRepeats(pattern) ==
    {ij \in Repeats(pattern) : ij[1] = 1 \/ pattern[ij[1] - 1] \in {"|", "}"}}

\* re.compile(pattern) raises OverflowError("the repetition number is too
\* large"): sre_parse, reading from the left, meets a repetition whose
\* number is MAXREPEAT or more before it meets an error
re_overflow(pattern) ==
    \E ij \in Repeats(pattern) :
        /\ ij[1] < FirstSet(pattern)
        /\ \A q \in BadRepeats(pattern) : ij[1] <= q[1]
        /\ DecimalGe(StripZeros(SubSeq(pattern, ij[1] + 1, ij[2] - 1)), MAXREPEAT)

\* re.compile(pattern) raises re.error: with no "]" in the alphabet a "["
\* opens a character set that never ends, and a repetition needs one
\* character before it to repeat
re_error(pattern) ==
    /\ ~re_overflow(pattern)
    /\ InSeq("[", pattern) \/ BadRepeats(pattern) # {}

\* a pattern that compiles, with every "x{n}" written out as n times x
RECURSIVE Expand(_)
Expand(pattern) ==
    IF Repeats(pattern) = {} THEN pattern
    ELSE LET ij == CHOOSE r \in Repeats(pattern) :
                       \A q \in Repeats(pattern) : r[1] <= q[1]
             n == IntOf(SubSeq(pattern, ij[1] + 1, ij[2] - 1))
         IN  SubSeq(pattern, 1, ij[1] - 2)
                 \o [k \in 1..n |-> pattern[ij[1] - 1]]
                 \o Expand(SubSeq(pattern, ij[2] + 1, Len(pattern)))

\* the alternatives of a pattern, split at "|"
RECURSIVE Alternatives(_)
Alternatives(pattern) ==
    LET bars == {i \in 1..Len(pattern) : pattern[i] = "|"}
    IN  IF bars = {} THEN {pattern}
        ELSE LET b == CHOOSE i \in bars : \A j \in bars : i <= j
             IN  {SubSeq(pattern, 1, b - 1)}
                     \cup Alternatives(SubSeq(pattern, b + 1, Len(pattern)))

\* one alternative (literals and ".") matches string at offset i
MatchAt(alt, string, i) ==
    /\ i + Len(alt) <= Len(string)
    /\ \A k \in 1..Len(alt) : alt[k] = "." \/ alt[k] = string[i + k]

\* bool(re.search(pattern, string)), pattern over literals, ".", "|" and
\* "{n}"
re_search(pattern, string) ==
    \E alt \in Alternatives(Expand(pattern)) :
        \E i \in 0..Len(string) : MatchAt(alt, string, i)

\* what _matches_path returns; _matches_path_raises tells when it does not
_matches_path(uri, pattern) ==
    LET path == UrlPath(uri)
    IN  IF InSeq("*", pattern) \/ InSeq("?", pattern)
        THEN fnmatch(path, pattern)
        ELSE IF re_error(pattern)
             THEN Contains(pattern, path)
             ELSE re_search(pattern, path)

\* lines 173-178: the try catches re.error only, so the OverflowError of
\* re.search leaves _matches_path
_matches_path_raises(uri, pattern) ==
    /\ ~(InSeq("*", pattern) \/ InSeq("?", pattern))
    /\ re_overflow(pattern)

_matches_domain(request, domain) ==
    LET host_header == HeaderGet(request.request.headers, "Host")
    IN  IF host_header # <<>>
        THEN Contains(Lower(domain), Lower(host_header[1]))
        ELSE FALSE

----------------------------------------------------------------------------
(* models/filters.py: the parsers of the command line's texts.  A parser   *)
(* returns Some(the object), or None when it raises ValueError.            *)

\* int(text) raises ValueError: text is not an optional sign followed by
\* decimal digits, single underscores allowed between two digits
int_raises(text) ==
    LET body == IF text # <<>> /\ Head(text) \in {"+", "-"} THEN Tail(text) ELSE text
    IN  \/ body = <<>>
        \/ \E i \in 1..Len(body) : body[i] \notin DecimalDigits \cup {"_"}
        \/ body[1] = "_"
        \/ body[Len(body)] = "_"
        \/ \E i \in 1..(Len(body) - 1) : body[i] = "_" /\ body[i + 1] = "_"

\* int(text) of a text int() accepts
int(text) ==
    LET body == IF Head(text) \in {"+", "-"} THEN Tail(text) ELSE text
        IsDigit(c) == c \in DecimalDigits
        n == IntOf(SelectSeq(body, IsDigit))
    IN  IF Head(text) = "-" THEN 0 - n ELSE n

\* from_string with every integer taken as a status code
from_string_AnyInteger(value, errors_only) ==
    LET v == Lower(strip(value))
    IN  IF Len(v) = 3 /\ v[1] \in {"1", "2", "3", "4", "5"} /\ v[2] = "x" /\ v[3] = "x"
        THEN Some(StatusCodeFilter(<<>>, <<v[1] \o "xx">>, errors_only))
        ELSE IF int_raises(v) THEN None
        ELSE Some(StatusCodeFilter(<<int(v)>>, <<>>, errors_only))

\* StatusCodeFilter.from_string
from_string(value, errors_only) ==
    LET v == Lower(strip(value))
    IN  IF Len(v) = 3 /\ v[1] \in {"1", "2", "3", "4", "5"} /\ v[2] = "x" /\ v[3] = "x"
        THEN Some(StatusCodeFilter(<<>>, <<v[1] \o "xx">>, errors_only))
        ELSE IF int_raises(v) THEN None
        ELSE IF 100 <= int(v) /\ int(v) <= 599
             THEN Some(StatusCodeFilter(<<int(v)>>, <<>>, errors_only))
             ELSE None

\* TimeWindow.parse
parse(value) ==
    LET v == Lower(strip(value))
        digits == SubSeq(v, 1, Len(v) - 1)
    IN  IF /\ Len(v) >= 2
           /\ v[Len(v)] \in {"s", "m", "h"}
           /\ \A i \in 1..Len(digits) : digits[i] \in DecimalDigits
        THEN Some(TimeWindow(IntOf(digits), v[Len(v)]))
        ELSE None

\* the status stage without the test for a missing response
StatusStage_NoResponsePasses(rs, fs) ==
    IF fs.status # None
    THEN LET Keep(r) == r.response = None
                          \/ matches(Val(fs.status), Val(r.response).status_code)
         IN  SelectSeq(rs, Keep)
    ELSE rs

\* the four stages of _apply_filters; clock is what datetime.now(UTC) returns
\* when the time-window stage runs
StatusStage(rs, fs) ==
    IF fs.status # None
    THEN LET Keep(r) == r.response # None /\ matches(Val(fs.status), Val(r.response).status_code)
         IN  SelectSeq(rs, Keep)
    ELSE rs

PathStage(rs, fs) ==
    IF fs.path_pattern # None
    THEN LET Keep(r) == _matches_path(r.request.uri, Val(fs.path_pattern))
         IN  SelectSeq(rs, Keep)
    ELSE rs

\* the domain stage stopping at the first record it rejects
DomainStage_UntilFirstMiss(rs, fs) ==
    IF fs.domain # None
    THEN LET Miss(k) == ~_matches_domain(rs[k], Val(fs.domain))
             misses == {k \in DOMAIN rs : Miss(k)}
         IN  IF misses = {} THEN rs
             ELSE SubSeq(rs, 1, (CHOOSE k \in misses : \A j \in misses : k <= j) - 1)
    ELSE rs

DomainStage(rs, fs) ==
    IF fs.domain # None
    THEN LET Keep(r) == _matches_domain(r, Val(fs.domain))
         IN  SelectSeq(rs, Keep)
    ELSE rs

\* TimeStage with a record at the cutoff itself left out
TimeStage_Strict(rs, fs, clock) ==
    IF fs.time_window # None
    THEN LET cutoff == clock - to_timedelta(Val(fs.time_window))
             Keep(r) == r.start > cutoff
         IN  SelectSeq(rs, Keep)
    ELSE rs

\* lines 143-149: the cutoff is computed once, then every record is compared
TimeStage(rs, fs, clock) ==
    IF fs.time_window # None
    THEN LET cutoff == clock - to_timedelta(Val(fs.time_window))
             Keep(r) == r.start >= cutoff
         IN  SelectSeq(rs, Keep)
    ELSE rs

\* what datetime.now(UTC) may return to a filtering pass: _apply_filters
\* reads the clock only for a time window, and the clock never goes back
Readings(fs) == IF fs.time_window # None THEN now..MaxClock ELSE {now}

\* _apply_filters with the domain stage left out
_apply_filters_NoDomain(rs, fs, clock) ==
    TimeStage(PathStage(StatusStage(rs, fs), fs), fs, clock)

_apply_filters(rs, fs, clock) ==
    TimeStage(DomainStage(PathStage(StatusStage(rs, fs), fs), fs), fs, clock)

----------------------------------------------------------------------------
(* repositories/ngrok.py                                                   *)

\* NgrokRepository.get_requests when the request succeeds.  The code sends
\* limit and tunnel_name as query parameters when they are not None; the
\* inspector, holding source, answers with the records of that tunnel and,
\* given a limit, with no more than that many of them.
repository_get_requests(source, limit, tunnel_name) ==
    LET OfTunnel(r) == r.tunnel_name = Val(tunnel_name)
        scoped == IF tunnel_name # None THEN SelectSeq(source, OfTunnel) ELSE source
    IN  IF limit # None
        THEN SubSeq(scoped, 1, Min(Max(Val(limit), 0), Len(scoped)))
        ELSE scoped

Call(limit, tunnel_name) == Some([limit |-> limit, tunnel_name |-> tunnel_name])

----------------------------------------------------------------------------
(* The filters the service is run with.                                    *)

StatusEmpty == StatusCodeFilter(<<>>, <<>>, FALSE)

StatusErrors == StatusCodeFilter(<<>>, <<>>, TRUE)

Status2xx == StatusCodeFilter(<<>>, <<"2xx">>, FALSE)

Status404 == StatusCodeFilter(<<404>>, <<>>, FALSE)

\* "/a*", a glob
PatGlob == <<"/", "a", "*">>

\* "a", a regular expression
PatRegex == <<"a">>

\* "[", not a regular expression
PatBad == <<"[">>

\* "a.I"
DomainA == <<"a", ".", "I">>

\* "B"
DomainB == <<"B">>

TailFilterSet ==
    { RequestFilters(None, None, None, None, None, None),
      RequestFilters(Some(1), None, None, None, None, None),
      RequestFilters(None, Some(StatusEmpty), None, None, None, None),
      RequestFilters(None, Some(StatusErrors), Some(PatGlob), None, None, None),
      RequestFilters(None, Some(Status2xx), None, None, Some("t1"), None),
      RequestFilters(None, None, Some(PatRegex), None, None, None),
      RequestFilters(None, None, None, Some(DomainA), None, None),
      RequestFilters(None, None, None, None, None, Some(TimeWindow(0, "s"))),
      RequestFilters(None, Some(Status404), Some(<<"b">>), Some(DomainB), None,
                     Some(TimeWindow(1, "m"))) }

Limits == {None} \cup {Some(n) : n \in (0 - 1)..MaxLimit}

ListFilterSet ==
    { RequestFilters(l, s, p, d, None, w) :
        l \in Limits,
        s \in {None, Some(StatusEmpty), Some(StatusErrors)},
        p \in {None, Some(PatGlob), Some(PatRegex)},
        d \in {None, Some(DomainA)},
        w \in {None, Some(TimeWindow(0, "s"))} }
    \cup { RequestFilters(l, s, Some(PatBad), None, Some("t1"), None) :
             l \in Limits, s \in {None, Some(Status2xx), Some(Status404)} }

----------------------------------------------------------------------------
(* services/inspector.py: InspectorService.tail_requests, a generator.     *)
(* pc: "start" before the first fetch, "poll" at the top of the while      *)
(* loop, "yield" inside the for loop, "sleep" at time.sleep, "raised"      *)
(* after an exception left the generator, "closed" after the caller        *)
(* stopped consuming.                                                      *)

\* TailStart with the initial snapshot left out of seen_ids
TailStart_SeenEmpty ==
    /\ pc = "start"
    /\ \E source \in Sources :
         LET initial == repository_get_requests(source, None, filters.tunnel_name)
         IN  /\ seen_ids' = {}
             /\ initial_ids' = IdsOf(initial)
    /\ call' = Call(None, filters.tunnel_name)
    /\ slept' = FALSE
    /\ pc' = "poll"
    /\ UNCHANGED <<requests, filtered, idx, seen_at_fetch,
                   poll_yielded, yielded, fetch_failed, rejected_ids>>

\* lines 62-70: the initial snapshot fills seen_ids
TailStart ==
    /\ pc = "start"
    /\ \E source \in Sources :
         LET initial == repository_get_requests(source, None, filters.tunnel_name)
         IN  /\ seen_ids' = IdsOf(initial)
             /\ initial_ids' = IdsOf(initial)
    /\ call' = Call(None, filters.tunnel_name)
    /\ slept' = FALSE
    /\ pc' = "poll"
    /\ UNCHANGED <<requests, filtered, idx, seen_at_fetch,
                   poll_yielded, yielded, fetch_failed, rejected_ids>>

\* line 65 raises: the exception leaves the generator
TailStartFail ==
    /\ pc = "start"
    /\ call' = Call(None, filters.tunnel_name)
    /\ fetch_failed' = TRUE
    /\ pc' = "raised"
    /\ UNCHANGED <<seen_ids, requests, filtered, idx, initial_ids, seen_at_fetch,
                   poll_yielded, yielded, slept, rejected_ids>>

\* Poll with the filters applied to the whole snapshot, seen records included
Poll_NoDedup ==
    /\ pc = "poll"
    /\ \E source \in Sources :
         LET fetched == repository_get_requests(source, None, filters.tunnel_name)
         IN  /\ requests' = fetched
             /\ \E clock \in Readings(filters) :
                  /\ now' = clock
                  /\ filtered' = _apply_filters(fetched, filters, clock)
    /\ call' = Call(None, filters.tunnel_name)
    /\ idx' = 1
    /\ seen_at_fetch' = seen_ids
    /\ poll_yielded' = <<>>
    /\ slept' = FALSE
    /\ pc' = IF filtered' = <<>> THEN "sleep" ELSE "yield"
    /\ UNCHANGED <<seen_ids, initial_ids, yielded, fetch_failed, rejected_ids>>

\* Poll with every fetched id added to seen_ids, whether its record passes
\* the filters or not
Poll_SeenOnFetch ==
    /\ pc = "poll"
    /\ \E source \in Sources :
         LET fetched == repository_get_requests(source, None, filters.tunnel_name)
             IsNew(r) == r.id \notin seen_ids
             new_requests == SelectSeq(fetched, IsNew)
         IN  /\ requests' = fetched
             /\ seen_ids' = seen_ids \cup IdsOf(fetched)
             /\ \E clock \in Readings(filters) :
                  /\ now' = clock
                  /\ filtered' = _apply_filters(new_requests, filters, clock)
    /\ call' = Call(None, filters.tunnel_name)
    /\ idx' = 1
    /\ seen_at_fetch' = seen_ids
    /\ poll_yielded' = <<>>
    /\ slept' = FALSE
    /\ pc' = IF filtered' = <<>> THEN "sleep" ELSE "yield"
    /\ UNCHANGED <<initial_ids, yielded, fetch_failed, rejected_ids>>

\* Poll with filters.limit applied to the filtered records, as get_requests does
Poll_Limited ==
    /\ pc = "poll"
    /\ \E source \in Sources :
         LET fetched == repository_get_requests(source, None, filters.tunnel_name)
             IsNew(r) == r.id \notin seen_ids
             new_requests == SelectSeq(fetched, IsNew)
         IN  /\ requests' = fetched
             /\ \E clock \in Readings(filters) :
                  LET kept == _apply_filters(new_requests, filters, clock)
                  IN  /\ now' = clock
                      /\ filtered' = IF filters.limit # None
                                     THEN Slice(kept, Val(filters.limit))
                                     ELSE kept
    /\ call' = Call(None, filters.tunnel_name)
    /\ idx' = 1
    /\ seen_at_fetch' = seen_ids
    /\ poll_yielded' = <<>>
    /\ slept' = FALSE
    /\ pc' = IF filtered' = <<>> THEN "sleep" ELSE "yield"
    /\ UNCHANGED <<seen_ids, initial_ids, yielded, fetch_failed, rejected_ids>>

\* lines 73-82: fetch, keep the unseen records, filter them
Poll ==
    /\ pc = "poll"
    /\ \E source \in Sources :
         LET fetched == repository_get_requests(source, None, filters.tunnel_name)
             IsNew(r) == r.id \notin seen_ids
             new_requests == SelectSeq(fetched, IsNew)
         IN  /\ requests' = fetched
             /\ \E clock \in Readings(filters) :
                  /\ now' = clock
                  /\ filtered' = _apply_filters(new_requests, filters, clock)
    /\ call' = Call(None, filters.tunnel_name)
    /\ idx' = 1
    /\ seen_at_fetch' = seen_ids
    /\ poll_yielded' = <<>>
    /\ slept' = FALSE
    /\ pc' = IF filtered' = <<>> THEN "sleep" ELSE "yield"
    /\ UNCHANGED <<seen_ids, initial_ids, yielded, fetch_failed, rejected_ids>>

\* PollFail with the failure swallowed: the loop sleeps and polls again
PollFail_Retry ==
    /\ pc = "poll"
    /\ call' = Call(None, filters.tunnel_name)
    /\ fetch_failed' = TRUE
    /\ pc' = "sleep"
    /\ UNCHANGED <<seen_ids, requests, filtered, idx, initial_ids, seen_at_fetch,
                   poll_yielded, yielded, slept, rejected_ids>>

\* line 73 raises: the exception leaves the generator
PollFail ==
    /\ pc = "poll"
    /\ call' = Call(None, filters.tunnel_name)
    /\ fetch_failed' = TRUE
    /\ pc' = "raised"
    /\ UNCHANGED <<seen_ids, requests, filtered, idx, initial_ids, seen_at_fetch,
                   poll_yielded, yielded, slept, rejected_ids>>

\* YieldNext with the id of the yielded record not added to seen_ids
YieldNext_IdNotAdded ==
    /\ pc = "yield"
    /\ LET req == filtered[idx]
       IN  /\ yielded' = [yielded EXCEPT ![req.id] = @ + 1]
           /\ poll_yielded' = Append(poll_yielded, req)
    /\ idx' = idx + 1
    /\ pc' = IF idx = Len(filtered) THEN "sleep" ELSE "yield"
    /\ UNCHANGED <<seen_ids, requests, filtered, initial_ids, seen_at_fetch,
                   fetch_failed, slept, rejected_ids, call>>

\* lines 83-96: one turn of the for loop
YieldNext ==
    /\ pc = "yield"
    /\ LET req == filtered[idx]
       IN  /\ seen_ids' = seen_ids \cup {req.id}
           /\ yielded' = [yielded EXCEPT ![req.id] = @ + 1]
           /\ poll_yielded' = Append(poll_yielded, req)
    /\ idx' = idx + 1
    /\ pc' = IF idx = Len(filtered) THEN "sleep" ELSE "yield"
    /\ UNCHANGED <<requests, filtered, initial_ids, seen_at_fetch,
                   fetch_failed, slept, rejected_ids, call>>

\* history: the ids of the records of this iteration that were new (line 76)
\* and that _apply_filters left out of filtered (line 82)
FilteredOut ==
    {requests[k].id : k \in {j \in DOMAIN requests :
                                /\ requests[j].id \notin seen_at_fetch
                                /\ ~InSeq(requests[j], filtered)}}

\* Sleep with the generator returning after a poll that yielded nothing
Sleep_ReturnWhenIdle ==
    /\ pc = "sleep"
    /\ pc' = IF poll_yielded = <<>> THEN "returned" ELSE "poll"
    /\ requests' = <<>>
    /\ filtered' = <<>>
    /\ idx' = 1
    /\ seen_at_fetch' = {}
    /\ poll_yielded' = <<>>
    /\ slept' = TRUE
    /\ rejected_ids' = rejected_ids \cup FilteredOut
    /\ UNCHANGED <<seen_ids, initial_ids, yielded, fetch_failed, call>>

\* line 98: time.sleep(poll_interval), then the top of the loop.  The locals
\* of the finished iteration are dead (each is assigned again before it is
\* read), so the model clears them together with the history of the poll.
Sleep ==
    /\ pc = "sleep"
    /\ pc' = "poll"
    /\ requests' = <<>>
    /\ filtered' = <<>>
    /\ idx' = 1
    /\ seen_at_fetch' = {}
    /\ poll_yielded' = <<>>
    /\ slept' = TRUE
    /\ rejected_ids' = rejected_ids \cup FilteredOut
    /\ UNCHANGED <<seen_ids, initial_ids, yielded, fetch_failed, call>>

\* the caller stops consuming (Ctrl+C in the tail command)
Stop ==
    /\ pc \in {"poll", "yield", "sleep"}
    /\ pc' = "closed"
    /\ UNCHANGED <<seen_ids, requests, filtered, idx, initial_ids, seen_at_fetch,
                   poll_yielded, yielded, fetch_failed, slept, rejected_ids,
                   call>>

----------------------------------------------------------------------------
(* services/inspector.py: InspectorService.get_requests                    *)

\* get_requests with filters.limit handed to the repository (limit, then filter)
get_requests_LimitFirst(source, fs, clock) ==
    LET fetched == repository_get_requests(source, fs.limit, fs.tunnel_name)
        kept == _apply_filters(fetched, fs, clock)
    IN  [call |-> Call(fs.limit, fs.tunnel_name),
         requests |-> fetched,
         filtered |-> kept,
         result |-> IF fs.limit # None THEN Slice(kept, Val(fs.limit)) ELSE kept]

\* lines 32-44, the inspector holding source: the arguments of the fetch,
\* what it returned, the filtered list and the returned list
get_requests(source, fs, clock) ==
    LET fetched == repository_get_requests(source, None, fs.tunnel_name)
        kept == _apply_filters(fetched, fs, clock)
    IN  [call |-> Call(None, fs.tunnel_name),
         requests |-> fetched,
         filtered |-> kept,
         result |-> IF fs.limit # None THEN Slice(kept, Val(fs.limit)) ELSE kept]

GetRequests ==
    /\ list_pc = "idle"
    /\ \E source \in Sources, clock \in Readings(filters) :
         LET out == get_requests(source, filters, clock)
         IN  /\ now' = clock
             /\ list_source' = source
             /\ call' = out.call
             /\ list_fetched' = out.requests
             /\ list_filtered' = out.filtered
             /\ list_result' = out.result
    /\ list_pc' = "done"

\* line 32 raises: get_requests returns nothing
GetRequestsFail ==
    /\ list_pc = "idle"
    /\ call' = Call(None, filters.tunnel_name)
    /\ list_pc' = "raised"
    /\ UNCHANGED <<list_source, list_fetched, list_filtered, list_result, now>>

----------------------------------------------------------------------------
(* models/filters.py: one call of StatusCodeFilter.matches                 *)

Matches ==
    /\ m_result = None
    /\ m_result' = Some(matches(m_filter, m_code))
    /\ UNCHANGED <<m_filter, m_code>>

\* the status codes matches is called with
Codes == {100, 200, 299, 399, 400, 404, 499, 500, 599}

\* the filters matches is called on; validate_ranges admits "1xx" .. "5xx"
StatusFilters ==
    { StatusCodeFilter(e, r, eo) :
        e \in SeqsUpTo({200, 404, 500}, MaxList),
        r \in SeqsUpTo({"2xx", "4xx", "5xx"}, MaxList),
        eo \in BOOLEAN }

----------------------------------------------------------------------------
(* services/inspector.py: one call of _matches_domain or _matches_path     *)

\* how a call ends: with a value, or with an exception leaving the function
Returns(x) == [outcome |-> "return", value |-> x]

Raises(e) == [outcome |-> "raise", value |-> e]

\* the header maps of the requests _matches_domain is called with
HostHeaders ==
    { <<>>,
      << <<"Host", <<HostA>> >> >>,
      << <<"host", <<HostA>> >> >>,
      << <<"HOST", <<HostB>> >> >>,
      << <<"Host", <<>> >> >>,
      << <<"Accept", <<HostA>> >>, <<"Host", <<HostB, HostA>> >> >>,
      << <<"host", <<HostA>> >>, <<"Host", <<HostB>> >> >> }

\* the domain filters: "a.I", "B", "io", "x" and the empty text
DomainInputs == {DomainA, DomainB, <<"i", "o">>, <<"x">>, <<>>}

DomainCalls ==
    { [fn |-> "_matches_domain",
       request |-> CapturedRequest("a", "t1", 0, <<"/">>, h, None),
       domain |-> d] : h \in HostHeaders, d \in DomainInputs }

\* "a{99999999999}": a repetition number above MAXREPEAT
PatHuge == <<"a", "{", "9", "9", "9", "9", "9", "9", "9", "9", "9", "9", "9", "}">>

\* the path patterns: globs, regular expressions, texts that do not compile
PathPatterns ==
    { PatGlob, PatRegex, PatBad, PatHuge,
      <<"?">>, <<"/", "b", "?">>, <<"*", "[">>,
      <<"a", "|", "b">>, <<"a", ".", "b">>, <<"b", "{", "2", "}">>,
      <<";", "b">>, <<"/", "a", ";", "b">>, <<"{", "1", "}">>,
      <<"b", "[">>, <<>> }

\* the URIs: with a query string, a fragment, parameters, or none of them
Uris ==
    { <<"/">>, <<"/", "b", "?", "a">>, <<"/", "a", "/", "b">>,
      <<"/", "a", "[", "#", "b">>, <<"/", "a", ";", "b">>,
      <<"/", "a", ";", "b", "/", "b", "b", "?", "b">>,
      <<"/", "b", "b">>, <<"/", "a", "#", "b", "?", "a">> }

PathCalls ==
    { [fn |-> "_matches_path", uri |-> u, pattern |-> q] :
        u \in Uris, q \in PathPatterns }

MatchesDomain ==
    /\ fn_result = None
    /\ fn_call.fn = "_matches_domain"
    /\ fn_result' = Some(Returns(_matches_domain(fn_call.request, fn_call.domain)))
    /\ UNCHANGED fn_call

MatchesPath ==
    /\ fn_result = None
    /\ fn_call.fn = "_matches_path"
    /\ fn_result' =
         IF _matches_path_raises(fn_call.uri, fn_call.pattern)
         THEN Some(Raises("OverflowError"))
         ELSE Some(Returns(_matches_path(fn_call.uri, fn_call.pattern)))
    /\ UNCHANGED fn_call

----------------------------------------------------------------------------
(* services/formatter.py: _decode_body and _extract_http_body              *)

\* the base64 alphabet, in the order of its values 0 .. 63
B64Alphabet ==
    << "A", "B", "C", "D", "E", "F", "G", "H", "I", "J", "K", "L", "M",
       "N", "O", "P", "Q", "R", "S", "T", "U", "V", "W", "X", "Y", "Z",
       "a", "b", "c", "d", "e", "f", "g", "h", "i", "j", "k", "l", "m",
       "n", "o", "p", "q", "r", "s", "t", "u", "v", "w", "x", "y", "z",
       "0", "1", "2", "3", "4", "5", "6", "7", "8", "9", "+", "/" >>

IsB64(c) == \E i \in 1..Len(B64Alphabet) : B64Alphabet[i] = c

B64Value(c) == (CHOOSE i \in 1..Len(B64Alphabet) : B64Alphabet[i] = c) - 1

\* binascii.a2b_base64(data), not strict, as base64.b64decode calls it: the
\* loop over the characters from position i on, with the state of the loop
\* (quad_pos, pads, leftchar) and the bytes written so far; None when
\* binascii.Error is raised.  A character outside the alphabet is skipped,
\* and a completed run of padding ends the decoding.
RECURSIVE a2b_base64(_, _, _, _, _, _)
a2b_base64(data, i, quad_pos, pads, leftchar, bin_data) ==
    IF i > Len(data)
    THEN IF quad_pos # 0 THEN None ELSE Some(bin_data)
    ELSE LET c == data[i]
         IN  IF c = "="
             THEN IF quad_pos >= 2 /\ quad_pos + pads + 1 >= 4
                  THEN Some(bin_data)
                  ELSE a2b_base64(data, i + 1, quad_pos,
                                  IF quad_pos >= 2 THEN pads + 1 ELSE pads,
                                  leftchar, bin_data)
             ELSE IF ~IsB64(c)
             THEN a2b_base64(data, i + 1, quad_pos, pads, leftchar, bin_data)
             ELSE LET v == B64Value(c)
                  IN  CASE quad_pos = 0 ->
                             a2b_base64(data, i + 1, 1, 0, v, bin_data)
                        [] quad_pos = 1 ->
                             a2b_base64(data, i + 1, 2, 0, v % 16,
                                        Append(bin_data, leftchar * 4 + v \div 16))
                        [] quad_pos = 2 ->
                             a2b_base64(data, i + 1, 3, 0, v % 4,
                                        Append(bin_data, leftchar * 16 + v \div 4))
                        [] quad_pos = 3 ->
                             a2b_base64(data, i + 1, 0, 0, 0,
                                        Append(bin_data, leftchar * 64 + v))

\* the character of an ASCII byte: itself when it is one the model writes,
\* else its name
chr(byte) ==
    CASE byte = 10 -> "\n"
      [] byte = 13 -> "\r"
      [] byte = 32 -> " "
      [] byte \in 48..57 -> ToString(byte - 48)
      [] byte \in 65..90 -> B64Alphabet[byte - 64]
      [] byte \in 97..122 -> B64Alphabet[byte - 70]
      [] byte = 58 -> ":"
      [] byte = 91 -> "["
      [] byte = 93 -> "]"
      [] byte = 44 -> ","
      [] OTHER -> "chr(" \o ToString(byte) \o ")"

\* bytes.decode("utf-8", errors="replace") for bytes that hold no lead byte
\* of a multi-byte sequence (every byte from 128 on is below 194): each
\* byte from 128 on is undecodable and becomes U+FFFD
decode_utf8_replace(bytes) ==
    [i \in 1..Len(bytes) |-> IF bytes[i] < 128 THEN chr(bytes[i]) ELSE "U+FFFD"]

\* lines 149-155; raw is None or a text
_decode_body(raw) ==
    IF raw = None \/ Val(raw) = <<>> THEN <<>>
    ELSE LET decoded == a2b_base64(Val(raw), 1, 0, 0, 0, <<>>)
         IN  IF decoded = None THEN <<>>
             ELSE decode_utf8_replace(Val(decoded))

\* where sub first occurs in s (the index before it), -1 when it does not:
\* str.find
find(s, sub) ==
    LET at == {i \in 0..(Len(s) - Len(sub)) : SubSeq(s, i + 1, i + Len(sub)) = sub}
    IN  IF at = {} THEN 0 - 1 ELSE CHOOSE i \in at : \A j \in at : i <= j

\* s.split(sep, 1)[1] of a text that holds sep
AfterFirst(s, sep) == SubSeq(s, find(s, sep) + Len(sep) + 1, Len(s))

CRLFCRLF == <<"\r", "\n", "\r", "\n">>

LFLF == <<"\n", "\n">>

\* _extract_http_body with the bare separator tried first
_extract_http_body_BareFirst(raw_message) ==
    IF Contains(LFLF, raw_message) THEN AfterFirst(raw_message, LFLF)
    ELSE IF Contains(CRLFCRLF, raw_message) THEN AfterFirst(raw_message, CRLFCRLF)
    ELSE raw_message

\* lines 170-176
_extract_http_body(raw_message) ==
    IF Contains(CRLFCRLF, raw_message) THEN AfterFirst(raw_message, CRLFCRLF)
    ELSE IF Contains(LFLF, raw_message) THEN AfterFirst(raw_message, LFLF)
    ELSE raw_message

----------------------------------------------------------------------------
(* services/formatter.py: _format_body and what it calls                   *)

\* the longest decimal numeral int() reads: sys.int_max_str_digits, which
\* json.loads runs into when it builds the integer of a numeral
int_max_str_digits == 4300

\* str.split(c) for a separator of one character
RECURSIVE split(_, _)
split(s, c) ==
    IF ~InSeq(c, s) THEN <<s>>
    ELSE LET i == CHOOSE k \in 1..Len(s) : s[k] = c /\ \A j \in 1..(k - 1) : s[j] # c
         IN  <<SubSeq(s, 1, i - 1)>> \o split(SubSeq(s, i + 1, Len(s)), c)

\* c.join(lines)
RECURSIVE join(_, _)
join(lines, c) ==
    IF lines = <<>> THEN <<>>
    ELSE IF Len(lines) = 1 THEN lines[1]
    ELSE lines[1] \o <<c>> \o join(Tail(lines), c)

\* s.rstrip(chars)
RECURSIVE rstrip_chars(_, _)
rstrip_chars(s, chars) ==
    IF s # <<>> /\ s[Len(s)] \in chars
    THEN rstrip_chars(SubSeq(s, 1, Len(s) - 1), chars)
    ELSE s

HexDigits == DecimalDigits \cup {"a", "b", "c", "d", "e", "f", "A", "B", "C", "D", "E", "F"}

\* re.match(r"^[0-9a-fA-F]+$", text) for a text that ends with no line break
IsHex(text) == text # <<>> /\ \A i \in 1..Len(text) : text[i] \in HexDigits

\* the whitespace of json.decoder
JsonWhitespace == {" ", "\t", "\n", "\r"}

\* the end of the match of json.decoder.WHITESPACE at position i
SkipWs(s, i) ==
    LET stops == {j \in i..Len(s) : s[j] \notin JsonWhitespace}
    IN  IF stops = {} THEN IF i > Len(s) THEN i ELSE Len(s) + 1
        ELSE CHOOSE j \in stops : \A k \in stops : j <= k

\* the end of the run of digits that starts at position i
DigitRunEnd(s, i) ==
    LET stops == {j \in i..Len(s) : s[j] \notin DecimalDigits}
    IN  IF stops = {} THEN Len(s) + 1
        ELSE CHOOSE j \in stops : \A k \in stops : j <= k

JsonInt(digits) == [kind |-> "int", text |-> digits]

JsonList(items) == [kind |-> "list", items |-> items]

Parsed(value, next) == [outcome |-> "value", value |-> value, next |-> next]

JSONDecodeError == [outcome |-> "JSONDecodeError"]

ValueError == [outcome |-> "ValueError"]

\* json.scanner's scan_once at position i, for the JSON texts of the model:
\* unsigned integers and arrays of them.  A numeral of more than
\* int_max_str_digits digits makes int() raise ValueError, which is not a
\* JSONDecodeError.
RECURSIVE scan_once(_, _), parse_items(_, _, _), after_item(_, _, _)
scan_once(s, i) ==
    IF i > Len(s) THEN JSONDecodeError
    ELSE IF s[i] = "["
    THEN LET j == SkipWs(s, i + 1)
         IN  IF j <= Len(s) /\ s[j] = "]" THEN Parsed(JsonList(<<>>), j + 1)
             ELSE parse_items(s, j, <<>>)
    ELSE IF s[i] = "0" THEN Parsed(JsonInt(<<"0">>), i + 1)
    ELSE IF s[i] \in DecimalDigits
    THEN LET e == DigitRunEnd(s, i)
         IN  IF e - i > int_max_str_digits THEN ValueError
             ELSE Parsed(JsonInt(SubSeq(s, i, e - 1)), e)
    ELSE JSONDecodeError

\* the items of an array from position i on, acc the items before them
parse_items(s, i, acc) == after_item(s, acc, scan_once(s, i))

\* what follows the item v of an array: its end, or a comma and more items
after_item(s, acc, v) ==
    IF v.outcome # "value" THEN v
    ELSE LET j == SkipWs(s, v.next)
         IN  IF j > Len(s) THEN JSONDecodeError
             ELSE IF s[j] = "]" THEN Parsed(JsonList(Append(acc, v.value)), j + 1)
             ELSE IF s[j] = ","
             THEN parse_items(s, SkipWs(s, j + 1), Append(acc, v.value))
             ELSE JSONDecodeError

\* the document v read from s, unless text follows it
WholeDocument(s, v) ==
    IF v.outcome # "value" THEN v
    ELSE IF SkipWs(s, v.next) <= Len(s) THEN JSONDecodeError
    ELSE v

\* json.loads(s)
json_loads(s) == WholeDocument(s, scan_once(s, SkipWs(s, 1)))

Indent(level) == [i \in 1..(2 * level) |-> " "]

\* json.dumps(value, indent=2), at a nesting level
RECURSIVE json_dumps(_, _), dump_items(_, _, _)
json_dumps(value, level) ==
    IF value.kind = "int" THEN value.text
    ELSE IF value.items = <<>> THEN <<"[", "]">>
    ELSE <<"[">> \o dump_items(value.items, 1, level + 1)
               \o <<"\n">> \o Indent(level) \o <<"]">>

dump_items(items, k, level) ==
    IF k > Len(items) THEN <<>>
    ELSE (IF k > 1 THEN <<",">> ELSE <<>>)
         \o <<"\n">> \o Indent(level) \o json_dumps(items[k], level)
         \o dump_items(items, k + 1, level)

\* lines 297-299 for the outcome of json.loads(text)
Reserialised(text, parsed) ==
    CASE parsed.outcome = "value" -> Returns(json_dumps(parsed.value, 0))
      [] parsed.outcome = "JSONDecodeError" -> Returns(text)
      [] parsed.outcome = "ValueError" -> Raises("ValueError")

\* lines 295-299
_try_format_json(text) == Reserialised(text, json_loads(text))

\* lines 219-232
_is_chunked_body(body) ==
    LET lines == split(strip(body), "\n")
    IN  /\ Len(lines) >= 2
        /\ IsHex(strip(lines[1]))
        /\ strip(lines[Len(lines)]) = <<"0">>

DataPrefix == <<"d", "a", "t", "a", ":">>

\* s.startswith(prefix)
startswith(s, prefix) == Len(prefix) <= Len(s) /\ SubSeq(s, 1, Len(prefix)) = prefix

\* lines 267-274: the lines of a data line, formatted_data the outcome of
\* _try_format_json(data_content)
DataLines(data_content, formatted_data) ==
    IF formatted_data.outcome = "raise" THEN formatted_data
    ELSE IF formatted_data.value # data_content
    THEN LET json_lines == split(formatted_data.value, "\n")
         IN  Returns([k \in 1..Len(json_lines) |->
                        IF k = 1
                        THEN DataPrefix \o <<" ">> \o json_lines[k]
                        ELSE Indent(3) \o json_lines[k]])
    ELSE Returns(<<DataPrefix \o <<" ">> \o formatted_data.value>>)

\* lines 265-266
DataLine(data_content) == DataLines(data_content, _try_format_json(data_content))

\* ChunkLine with the hex test made on the line as it stands, white space
\* around it included
ChunkLine_HexUnstripped(raw_line) ==
    LET line == rstrip_chars(raw_line, {"\r"})
    IN  IF IsHex(line) THEN Returns(<<>>)
        ELSE IF startswith(line, DataPrefix)
        THEN DataLine(strip(SubSeq(line, 6, Len(line))))
        ELSE Returns(<<line>>)

\* what one pass of the loop of lines 250-276 appends to result_lines
ChunkLine(raw_line) ==
    LET line == rstrip_chars(raw_line, {"\r"})
    IN  IF IsHex(strip(line)) THEN Returns(<<>>)
        ELSE IF startswith(line, DataPrefix)
        THEN DataLine(strip(SubSeq(line, 6, Len(line))))
        ELSE Returns(<<line>>)

\* the loop of lines 250-276 from line i on; step is what the pass for
\* line i appends
RECURSIVE ChunkLines(_, _, _), ChunkStep(_, _, _, _)
ChunkLines(lines, i, result_lines) ==
    IF i > Len(lines) THEN Returns(result_lines)
    ELSE ChunkStep(lines, i, result_lines, ChunkLine(lines[i]))

ChunkStep(lines, i, result_lines, step) ==
    IF step.outcome = "raise" THEN step
    ELSE ChunkLines(lines, i + 1, result_lines \o step.value)

\* lines 279-280
RECURSIVE StripTrailingEmpty(_)
StripTrailingEmpty(result_lines) ==
    IF result_lines # <<>> /\ strip(result_lines[Len(result_lines)]) = <<>>
    THEN StripTrailingEmpty(SubSeq(result_lines, 1, Len(result_lines) - 1))
    ELSE result_lines

\* lines 279-284 for the outcome of the loop
Rejoined(looped) ==
    IF looped.outcome = "raise" THEN looped
    ELSE Returns(join(StripTrailingEmpty(looped.value), "\n"))

\* lines 246-284
_format_chunked_body(body) == Rejoined(ChunkLines(split(body, "\n"), 1, <<>>))

\* FormatOptions (models/output.py)
FormatOptions(pretty_print, truncate, show_headers, headers_filter) ==
    [pretty_print |-> pretty_print, truncate |-> truncate,
     show_headers |-> show_headers, headers_filter |-> headers_filter]

\* str(n) of a natural number
RECURSIVE DecimalText(_)
DecimalText(n) ==
    IF n < 10 THEN <<ToString(n)>>
    ELSE DecimalText(n \div 10) \o <<ToString(n % 10)>>

\* "\n... (truncated, {n} total chars)"
TruncationMarker(n) ==
    <<"\n", ".", ".", ".", " ", "(", "t", "r", "u", "n", "c", "a", "t", "e", "d", ",", " ">>
    \o DecimalText(n)
    \o <<" ", "t", "o", "t", "a", "l", " ", "c", "h", "a", "r", "s", ")">>

JsonWord == <<"j", "s", "o", "n">>

\* lines 190-201: the transformation, before truncation
Transformed(body, content_type, options) ==
    IF options.pretty_print
    THEN IF _is_chunked_body(body) THEN _format_chunked_body(body)
         ELSE IF Contains(JsonWord, Lower(content_type)) THEN _try_format_json(body)
         ELSE Returns(body)
    ELSE Returns(body)

\* lines 203-207 for the outcome of the transformation
Truncated(body, options, result) ==
    IF result.outcome = "raise" THEN result
    ELSE IF options.truncate # None /\ Len(result.value) > Val(options.truncate)
    THEN Returns(Slice(result.value, Val(options.truncate))
                 \o TruncationMarker(Len(body)))
    ELSE Returns(result.value)

\* lines 189-207
_format_body(body, content_type, options) ==
    Truncated(body, options, Transformed(body, content_type, options))

----------------------------------------------------------------------------
(* services/formatter.py: format_request and what it calls                 *)

\* one line of the output: a fixed part followed by text of the record
Line(fixed, text) == [fixed |-> fixed, text |-> text]

SensitiveNames == {"authorization", "x-api-key", "cookie", "set-cookie"}

Mask == <<"*", "*", "*">>

\* lines 315-327 for one header, masking only a name written in lower case
HeaderLines_MaskExactCase(name, values, filter_list) ==
    IF filter_list # None
       /\ ~\E k \in 1..Len(Val(filter_list)) : NameLower(Val(filter_list)[k]) = NameLower(name)
    THEN <<>>
    ELSE LET display_values == IF name \in SensitiveNames THEN <<Mask>> ELSE values
         IN  [k \in 1..Len(display_values) |-> Line(name \o ": ", display_values[k])]

\* lines 315-327 for one header: the allowlist, the mask, one line a value
HeaderLines(name, values, filter_list) ==
    IF filter_list # None
       /\ ~\E k \in 1..Len(Val(filter_list)) : NameLower(Val(filter_list)[k]) = NameLower(name)
    THEN <<>>
    ELSE LET display_values == IF NameLower(name) \in SensitiveNames THEN <<Mask>> ELSE values
         IN  [k \in 1..Len(display_values) |-> Line(name \o ": ", display_values[k])]

\* lines 314-329: the headers in stored order
RECURSIVE _format_headers(_, _)
_format_headers(headers, filter_list) ==
    IF headers = <<>> THEN <<>>
    ELSE HeaderLines(headers[1][1], headers[1][2], filter_list)
         \o _format_headers(Tail(headers), filter_list)

\* round(n / d) for the float n / d printed with a fixed number of decimals:
\* to the nearest, a tie to the even neighbour
RoundDiv(n, d) ==
    LET q == n \div d
        r == n % d
    IN  IF 2 * r < d THEN q
        ELSE IF 2 * r > d THEN q + 1
        ELSE IF q % 2 = 0 THEN q ELSE q + 1

\* f"{x:.2f}" of x given in hundredths
TwoDecimals(hundredths) ==
    DecimalText(hundredths \div 100) \o <<".">>
    \o <<ToString((hundredths % 100) \div 10), ToString(hundredths % 10)>>

\* lines 340-345.  The figure is exact for every duration whose quotient is
\* not half-way between two printed values; half-way, the microsecond and
\* second figures follow the binary float of the quotient, which this even
\* rounding matches only when the quotient is itself a binary fraction.
_format_duration(nanoseconds) ==
    IF nanoseconds < 1000000
    THEN TwoDecimals(RoundDiv(nanoseconds, 10)) \o <<"U+00B5", "s">>
    ELSE IF nanoseconds < 1000000000
    THEN DecimalText(RoundDiv(nanoseconds, 1000000)) \o <<"m", "s">>
    ELSE TwoDecimals(RoundDiv(nanoseconds, 10000000)) \o <<"s">>

\* line 356: datetime.isoformat() of a time dt seconds after the epoch, UTC,
\* in its first minute
_format_timestamp(dt) ==
    <<"1", "9", "7", "0", "-", "0", "1", "-", "0", "1", "T", "0", "0", ":", "0", "0", ":">>
    \o <<ToString(dt \div 10), ToString(dt % 10)>>
    \o <<"+", "0", "0", ":", "0", "0">>

\* lines 367-368
_get_content_type(headers) ==
    LET content_types == HeaderGet(headers, "Content-Type")
    IN  IF content_types # <<>> THEN content_types[1] ELSE <<>>

\* lines 379-390
_get_code_block_lang(content_type) ==
    LET ct == Lower(content_type)
    IN  IF Contains(JsonWord, ct) THEN "json"
        ELSE IF Contains(<<"x", "m", "l">>, ct) THEN "xml"
        ELSE IF Contains(<<"h", "t", "m", "l">>, ct) THEN "html"
        ELSE IF Contains(<<"j", "a", "v", "a", "s", "c", "r", "i", "p", "t">>, ct)
        THEN "javascript"
        ELSE IF Contains(<<"c", "s", "s">>, ct) THEN "css"
        ELSE ""

\* RequestData, ResponseData and CapturedRequest (models/requests.py) with
\* the fields the formatter reads
RequestMessage(method, uri, headers, raw) ==
    [method |-> method, uri |-> uri, headers |-> headers, raw |-> raw]

ResponseMessage(status, status_code, headers, raw) ==
    [status |-> status, status_code |-> status_code, headers |-> headers, raw |-> raw]

Exchange(id, tunnel_name, remote_addr, start, duration, request, response) ==
    [id |-> id, tunnel_name |-> tunnel_name, remote_addr |-> remote_addr,
     start |-> start, duration |-> duration, request |-> request,
     response |-> response]

\* the backquote, which a string of the model cannot hold
Backquote == "'"

\* the fence of a code block: three backquotes
Fence == Backquote \o Backquote \o Backquote

\* lines 47-48 and 68-69: the body of a raw message
ExtractedBody(raw) ==
    LET decoded == _decode_body(raw)
    IN  IF decoded # <<>> THEN _extract_http_body(decoded) ELSE <<>>

\* lines 50, 54-58 and 71, 75-78: the lines of a body section,
\* body_formatted the outcome of _format_body
BodyBlock(title, lang, body_formatted) ==
    IF body_formatted.outcome = "raise" THEN body_formatted
    ELSE Returns(<< Line(title, <<>>),
                    Line(Fence \o lang, <<>>),
                    Line("", body_formatted.value),
                    Line(Fence, <<>>),
                    Line("", <<>>) >>)

\* the body section emitted for an empty body too
BodySection_EmptyIsEmitted(title, body, headers, options) ==
    BodyBlock(title, _get_code_block_lang(_get_content_type(headers)),
              _format_body(body, _get_content_type(headers), options))

\* lines 49-58 and 70-78: the body section, or the error of _format_body
BodySection(title, body, headers, options) ==
    IF body = <<>> THEN Returns(<<>>)
    ELSE BodyBlock(title, _get_code_block_lang(_get_content_type(headers)),
                   _format_body(body, _get_content_type(headers), options))

\* lines 41-45 and 61-64
HeaderSection(title, headers, options) ==
    <<Line(title, <<>>)>> \o _format_headers(headers, options.headers_filter)
                          \o <<Line("", <<>>)>>

\* line 80 for the five parts of the output, in their order
Assembled(head, request_headers, request_body, response_headers, response_body) ==
    IF request_body.outcome = "raise" THEN request_body
    ELSE IF response_body.outcome = "raise" THEN response_body
    ELSE Returns(head \o request_headers \o request_body.value
                      \o response_headers \o response_body.value)

\* lines 25-80; the value is the list lines, which the code joins with "\n"
format_request(request, options) ==
    LET status == IF request.response # None THEN Val(request.response).status
                  ELSE "No Response"
        head == << Line("## " \o request.request.method \o " ", request.request.uri),
                   Line("**ID:** " \o Backquote \o request.id \o Backquote, <<>>),
                   Line("**Status:** " \o status, <<>>),
                   Line("**Duration:** ", _format_duration(request.duration)),
                   Line("**Timestamp:** ", _format_timestamp(request.start)),
                   Line("**Tunnel:** " \o request.tunnel_name, <<>>),
                   Line("**Remote:** " \o request.remote_addr, <<>>),
                   Line("", <<>>) >>
        request_headers ==
            IF options.show_headers
            THEN HeaderSection("### Request Headers", request.request.headers, options)
            ELSE <<>>
        request_body ==
            BodySection("### Request Body", ExtractedBody(request.request.raw),
                        request.request.headers, options)
        response_headers ==
            IF request.response # None /\ options.show_headers
            THEN HeaderSection("### Response Headers", Val(request.response).headers, options)
            ELSE <<>>
        response_body ==
            IF request.response # None
            THEN BodySection("### Response Body", ExtractedBody(Val(request.response).raw),
                             Val(request.response).headers, options)
            ELSE Returns(<<>>)
    IN  Assembled(head, request_headers, request_body, response_headers, response_body)

\* the payloads _decode_body is called with: none, and the texts over two
\* characters of the alphabet, the padding and one character outside it
DecodeCalls ==
    { [fn |-> "_decode_body", raw |-> r] :
        r \in {None} \cup {Some(t) : t \in SeqsUpTo({"a", "G", "=", "!"}, MaxPayload)} }

\* the raw messages _extract_http_body is called with
ExtractCalls ==
    { [fn |-> "_extract_http_body", raw_message |-> t] :
        t \in SeqsUpTo({"\r", "\n", "a"}, MaxMessage) }

\* a numeral of n digits
Numeral(n) == [i \in 1..n |-> "1"]

\* bodies written out: JSON texts, chunked bodies with and without data
\* lines, and numerals at the limit of int()
BodySamples ==
    { <<"[", "1", ",", "0", "]">>,
      <<"[", "[", "1", "]", "]">>,
      <<"[", "1", ",", "]">>,
      <<"a", "b", "c">>,
      <<"1", "\n", "d", "a", "t", "a", ":", "[", "1", "]", "\n", "0">>,
      <<"1", "\r", "\n", "d", "a", "t", "a", ":", " ", "x", "\r", "\n", "0", "\r", "\n">>,
      <<"f", "\n", "[", "1", "]", "\n", "\n", "0">>,
      <<"1", "\n", "x", "\n", " ", "0">>,
      Numeral(int_max_str_digits),
      Numeral(int_max_str_digits + 1),
      <<"1", "\n", "d", "a", "t", "a", ":">> \o Numeral(int_max_str_digits + 1)
          \o <<"\n", "0">> }

JsonType == <<"a", "/", "J", "S", "O", "N">>

XmlType == <<"x", "m", "l">>

FormatBodyCalls ==
    { [fn |-> "_format_body", body |-> b, content_type |-> ct,
       options |-> FormatOptions(pp, tr, TRUE, None)] :
        b \in SeqsUpTo({"1", "0", "[", "]", "\n", " "}, MaxBody) \cup BodySamples,
        ct \in {<<>>, JsonType, XmlType},
        pp \in BOOLEAN,
        tr \in {None} \cup {Some(n) : n \in (0 - 1)..MaxTruncate} }

\* values of the headers that are to stay hidden
Secrets == {<<"s", "1">>, <<"s", "2">>}

RequestHeaderMaps ==
    {<<>>}
    \cup { << <<"Authorization", <<s>> >>, <<"Accept", <<HostA, HostB>> >> >> : s \in Secrets }
    \cup { << <<"cookie", <<s, t>> >>, <<"Content-Type", <<JsonType>> >> >> :
              s \in Secrets, t \in Secrets }
    \cup { << <<"X-Api-Key", <<>> >>, <<"AUTHORIZATION", <<s>> >> >> : s \in Secrets }

ResponseHeaderMaps ==
    {<<>>}
    \cup { << <<"Set-Cookie", <<s>> >>, <<"Content-Type", <<JsonType>> >> >> : s \in Secrets }

\* base64 of "a\n\n[1]", of "a\n\n" and of "a\r\n\r\n10"
RawJson == <<"Y", "Q", "o", "K", "W", "z", "F", "d">>

RawNoBody == <<"Y", "Q", "o", "K">>

RawNumber == <<"Y", "Q", "0", "K", "D", "Q", "o", "x", "M", "A", "=", "=">>

Responses ==
    {None}
    \cup { Some(ResponseMessage("200 OK", 200, h, raw)) :
              h \in ResponseHeaderMaps, raw \in {None, Some(RawNumber)} }

FormatRequestCalls ==
    { [fn |-> "format_request",
       request |-> Exchange("a", "t1", "1.2.3.4", 7, 1234,
                            RequestMessage("GET", <<"/">>, h, raw), resp),
       options |-> FormatOptions(pp, tr, sh, hf)] :
        h \in RequestHeaderMaps,
        raw \in {None, Some(<<>>), Some(RawJson), Some(RawNoBody), Some(<<"!">>)},
        resp \in Responses,
        pp \in BOOLEAN,
        tr \in {None, Some(1)},
        sh \in BOOLEAN,
        hf \in {None, Some(<<>>), Some(<<"authorization">>),
                 Some(<<"Accept", "SET-COOKIE">>)} }

DecodeBody ==
    /\ fn_result = None
    /\ fn_call.fn = "_decode_body"
    /\ fn_result' = Some(Returns(_decode_body(fn_call.raw)))
    /\ UNCHANGED fn_call

ExtractHttpBody ==
    /\ fn_result = None
    /\ fn_call.fn = "_extract_http_body"
    /\ fn_result' = Some(Returns(_extract_http_body(fn_call.raw_message)))
    /\ UNCHANGED fn_call

FormatBody ==
    /\ fn_result = None
    /\ fn_call.fn = "_format_body"
    /\ fn_result' = Some(_format_body(fn_call.body, fn_call.content_type, fn_call.options))
    /\ UNCHANGED fn_call

\* bodies handed to _format_chunked_body: short ones letter by letter, with
\* carriage returns, and the written-out ones
ChunkedBodyCalls ==
    { [fn |-> "_format_chunked_body", body |-> b] :
        b \in SeqsUpTo({"0", "x", "\n", " ", "\r"}, MaxBody) \cup BodySamples
              \cup { <<"1", "\r", "\n", "x", " ", "\r", "\n", "\r", "\n", "0", "\r", "\n">> } }

\* header maps with no, one and two stored values, and allowlists in either
\* letter case
HeaderCalls ==
    { [fn |-> "_format_headers", headers |-> h, filter_list |-> f] :
        h \in RequestHeaderMaps \cup ResponseHeaderMaps
               \cup { << <<"Accept", <<>> >>, <<"Host", <<HostA>> >>,
                         <<"accept", <<HostB, HostA>> >> >> },
        f \in {None, Some(<<>>), Some(<<"ACCEPT">>), Some(<<"cookie", "Host">>),
               Some(<<"content-type", "authorization">>)} }

\* durations around the two thresholds.  Those whose microsecond or second
\* figure is half-way between two printed values are left out: there the
\* printed figure follows the binary float of the quotient.
Durations ==
    {0, 1, 994, 1000, 123456}
    \cup {n \in 999980..1000020 : n % 10 # 5}
    \cup {1499999, 1500000, 1500001, 2500000, 999499999, 999500000, 999500001}
    \cup {999999999, 1000000000, 1000000001, 1004000000, 1994999999, 2147483647}

DurationCalls == { [fn |-> "_format_duration", nanoseconds |-> n] : n \in Durations }

FormatChunkedBody ==
    /\ fn_result = None
    /\ fn_call.fn = "_format_chunked_body"
    /\ fn_result' = Some(_format_chunked_body(fn_call.body))
    /\ UNCHANGED fn_call

FormatHeaders ==
    /\ fn_result = None
    /\ fn_call.fn = "_format_headers"
    /\ fn_result' = Some(Returns(_format_headers(fn_call.headers, fn_call.filter_list)))
    /\ UNCHANGED fn_call

FormatDuration ==
    /\ fn_result = None
    /\ fn_call.fn = "_format_duration"
    /\ fn_result' = Some(Returns(_format_duration(fn_call.nanoseconds)))
    /\ UNCHANGED fn_call

FormatRequest ==
    /\ fn_result = None
    /\ fn_call.fn = "format_request"
    /\ fn_result' = Some(format_request(fn_call.request, fn_call.options))
    /\ UNCHANGED fn_call

----------------------------------------------------------------------------
(* cli/commands.py: the list and tail commands.                            *)
(* cli_pc: "start" before _build_filters, "built" once the filters exist   *)
(* and the service is at work, "exit" when the process has ended.          *)

\* the options of a command line; limit is an integer, the texts are
\* optional
CliOptions(limit, status, errors, path, domain, tunnel, since) ==
    [limit |-> limit, status |-> status, errors |-> errors, path |-> path,
     domain |-> domain, tunnel |-> tunnel, since |-> since]

\* _build_filters, lines 51-69: None when a parser raises ValueError
_build_filters(limit, status, errors, path, domain, tunnel, since) ==
    LET status_filter ==
            IF status # None THEN from_string(Val(status), errors)
            ELSE IF errors THEN Some(StatusCodeFilter(<<>>, <<>>, errors))
            ELSE None
        time_window == IF since # None THEN parse(Val(since)) ELSE None
    IN  IF status # None /\ status_filter = None THEN None
        ELSE IF since # None /\ time_window = None THEN None
        ELSE Some(RequestFilters(limit, status_filter, path, domain, tunnel,
                                 time_window))

\* line 128 of list_requests, line 209 of tail_requests: tail has no limit
\* and no time window
BuiltFilters ==
    LET o == cli_options
    IN  IF cli_command = "tail"
        THEN _build_filters(None, o.status, o.errors, o.path, o.domain, o.tunnel, None)
        ELSE _build_filters(Some(o.limit), o.status, o.errors, o.path, o.domain,
                            o.tunnel, o.since)

\* lines 128-129 and 209-212: the filters are built; tail announces itself
BuildFilters ==
    /\ cli_pc = "start"
    /\ BuiltFilters # None
    /\ filters' = Val(BuiltFilters)
    /\ cli_pc' = "built"
    /\ cli_stdout' = IF cli_command = "tail"
                     THEN Append(cli_stdout, "Watching for requests...")
                     ELSE cli_stdout
    /\ UNCHANGED <<cli_command, cli_options, cli_exit, cli_stderr>>

\* lines 163-165 and 237-239: _build_filters raised ValueError
BuildFiltersError ==
    /\ cli_pc = "start"
    /\ BuiltFilters = None
    /\ cli_stderr' = Append(cli_stderr, "Error: ...")
    /\ cli_exit' = Some(1)
    /\ cli_pc' = "exit"
    /\ UNCHANGED <<filters, cli_command, cli_options, cli_stdout>>

\* ListReport with an empty result printed like any other
ListReport_EmptyIsPrinted ==
    /\ cli_pc = "built"
    /\ cli_command = "list"
    /\ list_pc = "done"
    /\ cli_stdout' = Append(cli_stdout, "document")
    /\ cli_exit' = Some(0)
    /\ cli_pc' = "exit"
    /\ UNCHANGED <<cli_command, cli_options, cli_stderr>>

\* lines 142-158: no request, typer.Exit(1); else the document is printed
\* and the command returns
ListReport ==
    /\ cli_pc = "built"
    /\ cli_command = "list"
    /\ list_pc = "done"
    /\ IF list_result = <<>>
       THEN /\ cli_stderr' = Append(cli_stderr, "No requests found matching filters:")
            /\ cli_exit' = Some(1)
            /\ UNCHANGED cli_stdout
       ELSE /\ cli_stdout' = Append(cli_stdout, "document")
            /\ cli_exit' = Some(0)
            /\ UNCHANGED cli_stderr
    /\ cli_pc' = "exit"
    /\ UNCHANGED <<cli_command, cli_options>>

\* lines 160-162: the fetch raised NgrokConnectionError
ListConnectionError ==
    /\ cli_pc = "built"
    /\ cli_command = "list"
    /\ list_pc = "raised"
    /\ cli_stderr' = Append(cli_stderr, "NgrokConnectionError")
    /\ cli_exit' = Some(1)
    /\ cli_pc' = "exit"
    /\ UNCHANGED <<cli_command, cli_options, cli_stdout>>

\* lines 221-230: the body of the for loop prints the record yielded
TailPrint ==
    /\ cli_pc = "built"
    /\ cli_command = "tail"
    /\ YieldNext
    /\ cli_stdout' = Append(cli_stdout, "request")
    /\ UNCHANGED <<cli_command, cli_options, cli_pc, cli_exit, cli_stderr>>

\* lines 232-234: a fetch of the generator raised NgrokConnectionError
TailConnectionError ==
    /\ cli_pc = "built"
    /\ cli_command = "tail"
    /\ pc = "raised"
    /\ cli_stderr' = Append(cli_stderr, "NgrokConnectionError")
    /\ cli_exit' = Some(1)
    /\ cli_pc' = "exit"
    /\ UNCHANGED <<cli_command, cli_options, cli_stdout>>

\* lines 235-236: Ctrl+C; the command returns
TailInterrupted ==
    /\ cli_pc = "built"
    /\ cli_command = "tail"
    /\ pc = "closed"
    /\ cli_stdout' = Append(cli_stdout, "Stopped watching.")
    /\ cli_exit' = Some(0)
    /\ cli_pc' = "exit"
    /\ UNCHANGED <<cli_command, cli_options, cli_stderr>>

\* the texts typed after --status: "404", "4XX", " 5xx ", "+200", "4_04",
\* "6xx", "99", "600", "4x", "abc" and the empty text
StatusTexts ==
    { <<"4", "0", "4">>, <<"4", "X", "X">>, <<" ", "5", "x", "x", " ">>,
      <<"+", "2", "0", "0">>, <<"4", "_", "0", "4">>,
      <<"6", "x", "x">>, <<"9", "9">>, <<"6", "0", "0">>, <<"4", "x">>,
      <<"a", "b", "c">>, <<>> }

\* the texts typed after --since: "0s", "1M", " 1h", "5", "s", "5d", "1 s",
\* "-1s" and the empty text
SinceTexts ==
    { <<"0", "s">>, <<"1", "M">>, <<" ", "1", "h">>,
      <<"5">>, <<"s">>, <<"5", "d">>, <<"1", " ", "s">>, <<"-", "1", "s">>, <<>> }

\* the command lines of list: --limit is 20 unless given
ListCommandLines ==
    { CliOptions(l, st, e, None, None, None, si) :
        l \in {0, 1, 20},
        st \in {None} \cup {Some(t) : t \in StatusTexts},
        e \in BOOLEAN,
        si \in {None} \cup {Some(t) : t \in SinceTexts} }

\* the command lines of tail, which has no --limit and no --since
TailCommandLines ==
    { CliOptions(20, st, e, None, None, None, None) :
        st \in {None, Some(<<"5", "X", "X">>), Some(<<"9", "9">>), Some(<<"x">>)},
        e \in BOOLEAN }

----------------------------------------------------------------------------
(* The specifications.                                                     *)

TailInit ==
    /\ pc = "start"
    /\ seen_ids = {}
    /\ requests = <<>>
    /\ filtered = <<>>
    /\ idx = 1
    /\ initial_ids = {}
    /\ seen_at_fetch = {}
    /\ poll_yielded = <<>>
    /\ yielded = [i \in Ids |-> 0]
    /\ fetch_failed = FALSE
    /\ slept = FALSE
    /\ rejected_ids = {}
    /\ call = None

ListInit ==
    /\ list_pc = "idle"
    /\ list_source = <<>>
    /\ list_fetched = <<>>
    /\ list_filtered = <<>>
    /\ list_result = <<>>

MatchInit ==
    /\ m_filter = StatusEmpty
    /\ m_code = 0
    /\ m_result = None

\* no function is being called
CallInit ==
    /\ fn_call = None
    /\ fn_result = None

\* no command is being run
CliInit ==
    /\ cli_command = ""
    /\ cli_options = None
    /\ cli_pc = "none"
    /\ cli_exit = None
    /\ cli_stdout = <<>>
    /\ cli_stderr = <<>>

Init ==
    /\ filters \in TailFilterSet
    /\ now = 0
    /\ TailInit
    /\ ListInit
    /\ MatchInit
    /\ CallInit
    /\ CliInit

tailOnly == <<pc, seen_ids, requests, filtered, idx, initial_ids, seen_at_fetch,
              poll_yielded, yielded, fetch_failed, slept, rejected_ids>>

\* One use of the service: either one run of tail_requests or one call of
\* get_requests (with the filters of TailFilterSet).
Next ==
    \/ list_pc = "idle" /\ TailStart /\ UNCHANGED <<filters, now, listVars, matchVars, callVars, cliVars>>
    \/ list_pc = "idle" /\ TailStartFail /\ UNCHANGED <<filters, now, listVars, matchVars, callVars, cliVars>>
    \/ Poll /\ UNCHANGED <<filters, listVars, matchVars, callVars, cliVars>>
    \/ PollFail /\ UNCHANGED <<filters, now, listVars, matchVars, callVars, cliVars>>
    \/ YieldNext /\ UNCHANGED <<filters, now, listVars, matchVars, callVars, cliVars>>
    \/ Sleep /\ UNCHANGED <<filters, now, listVars, matchVars, callVars, cliVars>>
    \/ Stop /\ UNCHANGED <<filters, now, listVars, matchVars, callVars, cliVars>>
    \/ pc = "start" /\ GetRequests /\ UNCHANGED <<filters, tailOnly, matchVars, callVars, cliVars>>
    \/ pc = "start" /\ GetRequestsFail /\ UNCHANGED <<filters, tailOnly, matchVars, callVars, cliVars>>

Spec == Init /\ [][Next]_vars

\* The caller keeps consuming: the generator's own steps are taken whenever
\* they stay possible.  Fetch failures and the caller's stop are left free.
TailProgress ==
    /\ list_pc = "idle"
    /\ Poll \/ ((TailStart \/ YieldNext \/ Sleep) /\ UNCHANGED now)
    /\ UNCHANGED <<filters, listVars, matchVars, callVars, cliVars>>

LiveSpec == Spec /\ WF_vars(TailProgress)

ListSpecInit ==
    /\ filters \in ListFilterSet
    /\ now = 0
    /\ TailInit
    /\ ListInit
    /\ MatchInit
    /\ CallInit
    /\ CliInit

ListNext ==
    \/ GetRequests /\ UNCHANGED <<filters, tailOnly, matchVars, callVars, cliVars>>
    \/ GetRequestsFail /\ UNCHANGED <<filters, tailOnly, matchVars, callVars, cliVars>>

\* the list command: one call of get_requests
SpecList == ListSpecInit /\ [][ListNext]_vars

MatchSpecInit ==
    /\ filters = RequestFilters(None, None, None, None, None, None)
    /\ now = 0
    /\ TailInit
    /\ ListInit
    /\ m_filter \in StatusFilters
    /\ m_code \in Codes
    /\ m_result = None
    /\ CallInit
    /\ CliInit

MatchNext == Matches /\ UNCHANGED <<filters, now, tailVars, listVars, callVars, cliVars>>

\* one call of StatusCodeFilter.matches
SpecMatches == MatchSpecInit /\ [][MatchNext]_vars

CliSpecInit ==
    /\ filters = RequestFilters(None, None, None, None, None, None)
    /\ now = 0
    /\ TailInit
    /\ ListInit
    /\ MatchInit
    /\ CallInit
    /\ \/ cli_command = "list" /\ cli_options \in ListCommandLines
       \/ cli_command = "tail" /\ cli_options \in TailCommandLines
    /\ cli_pc = "start"
    /\ cli_exit = None
    /\ cli_stdout = <<>>
    /\ cli_stderr = <<>>

listRun == cli_pc = "built" /\ cli_command = "list"

tailRun == cli_pc = "built" /\ cli_command = "tail"

CliNext ==
    \/ BuildFilters /\ UNCHANGED <<now, tailVars, listVars, matchVars, callVars>>
    \/ BuildFiltersError /\ UNCHANGED <<now, tailVars, listVars, matchVars, callVars>>
    \/ listRun /\ GetRequests /\ UNCHANGED <<filters, tailOnly, matchVars, callVars, cliVars>>
    \/ listRun /\ GetRequestsFail /\ UNCHANGED <<filters, tailOnly, matchVars, callVars, cliVars>>
    \/ ListReport /\ UNCHANGED <<filters, now, tailVars, listVars, matchVars, callVars>>
    \/ ListConnectionError /\ UNCHANGED <<filters, now, tailVars, listVars, matchVars, callVars>>
    \/ tailRun /\ TailStart /\ UNCHANGED <<filters, now, listVars, matchVars, callVars, cliVars>>
    \/ tailRun /\ TailStartFail /\ UNCHANGED <<filters, now, listVars, matchVars, callVars, cliVars>>
    \/ tailRun /\ Poll /\ UNCHANGED <<filters, listVars, matchVars, callVars, cliVars>>
    \/ tailRun /\ PollFail /\ UNCHANGED <<filters, now, listVars, matchVars, callVars, cliVars>>
    \/ TailPrint /\ UNCHANGED <<filters, now, listVars, matchVars, callVars>>
    \/ tailRun /\ Sleep /\ UNCHANGED <<filters, now, listVars, matchVars, callVars, cliVars>>
    \/ tailRun /\ Stop /\ UNCHANGED <<filters, now, listVars, matchVars, callVars, cliVars>>
    \/ TailConnectionError /\ UNCHANGED <<filters, now, tailVars, listVars, matchVars, callVars>>
    \/ TailInterrupted /\ UNCHANGED <<filters, now, tailVars, listVars, matchVars, callVars>>

\* one run of the list command or of the tail command
SpecCli == CliSpecInit /\ [][CliNext]_vars

FormatterInit ==
    /\ filters = RequestFilters(None, None, None, None, None, None)
    /\ now = 0
    /\ TailInit
    /\ ListInit
    /\ MatchInit
    /\ CliInit
    /\ \/ fn_call \in DecodeCalls
       \/ fn_call \in ExtractCalls
       \/ fn_call \in FormatBodyCalls
       \/ fn_call \in FormatRequestCalls
       \/ fn_call \in ChunkedBodyCalls
       \/ fn_call \in HeaderCalls
       \/ fn_call \in DurationCalls
    /\ fn_result = None

FormatterNext ==
    \/ DecodeBody /\ UNCHANGED <<filters, now, tailVars, listVars, matchVars, cliVars>>
    \/ ExtractHttpBody /\ UNCHANGED <<filters, now, tailVars, listVars, matchVars, cliVars>>
    \/ FormatBody /\ UNCHANGED <<filters, now, tailVars, listVars, matchVars, cliVars>>
    \/ FormatRequest /\ UNCHANGED <<filters, now, tailVars, listVars, matchVars, cliVars>>
    \/ FormatChunkedBody /\ UNCHANGED <<filters, now, tailVars, listVars, matchVars, cliVars>>
    \/ FormatHeaders /\ UNCHANGED <<filters, now, tailVars, listVars, matchVars, cliVars>>
    \/ FormatDuration /\ UNCHANGED <<filters, now, tailVars, listVars, matchVars, cliVars>>

\* one call of a function of FormatterService
SpecFormatter == FormatterInit /\ [][FormatterNext]_vars

PredicatesInit ==
    /\ filters = RequestFilters(None, None, None, None, None, None)
    /\ now = 0
    /\ TailInit
    /\ ListInit
    /\ MatchInit
    /\ CliInit
    /\ fn_call \in DomainCalls \/ fn_call \in PathCalls
    /\ fn_result = None

PredicatesNext ==
    \/ MatchesDomain /\ UNCHANGED <<filters, now, tailVars, listVars, matchVars, cliVars>>
    \/ MatchesPath /\ UNCHANGED <<filters, now, tailVars, listVars, matchVars, cliVars>>

\* one call of _matches_domain or of _matches_path
SpecPredicates == PredicatesInit /\ [][PredicatesNext]_vars

----------------------------------------------------------------------------
(* Properties of the service and the vocabulary they use.                 *)

\* r satisfies every predicate present in fs, the cutoff taken at clock
Satisfies(r, fs, clock) ==
    /\ fs.status # None =>
         /\ r.response # None
         /\ matches(Val(fs.status), Val(r.response).status_code)
    /\ fs.path_pattern # None => _matches_path(r.request.uri, Val(fs.path_pattern))
    /\ fs.domain # None => _matches_domain(r, Val(fs.domain))
    /\ fs.time_window # None => r.start >= clock - to_timedelta(Val(fs.time_window))

NoPredicate(fs) ==
    fs.status = None /\ fs.path_pattern = None /\ fs.domain = None /\ fs.time_window = None

\* s is t with some entries left out
RECURSIVE IsSubSeq(_, _)
IsSubSeq(s, t) ==
    IF s = <<>> THEN TRUE
    ELSE IF t = <<>> THEN FALSE
    ELSE IF Head(s) = Head(t) THEN IsSubSeq(Tail(s), Tail(t))
    ELSE IsSubSeq(s, Tail(t))

IsPrefix(s, t) == Len(s) <= Len(t) /\ SubSeq(t, 1, Len(s)) = s

\* the records of the last polled snapshot that were unseen at the fetch and
\* satisfy the filters
NewMatching ==
    LET Wanted(r) == r.id \notin seen_at_fetch /\ Satisfies(r, filters, now)
    IN  SelectSeq(requests, Wanted)

----------------------------------------------------------------------------
(* C1: within one run of tail_requests no record id is yielded more than   *)
(* once, whatever snapshots the source returns.  Violated: a snapshot that *)
(* holds two records of one unseen id has both of them yielded.            *)
C1_NoIdYieldedTwice == \A i \in Ids : yielded[i] <= 1

(* C4: a record whose id is in the initial snapshot is never yielded       *)
(* during the run, even if it stays in later snapshots, changes or now     *)
(* satisfies the filters.                                                  *)
C4_InitialNeverYielded ==
    /\ \A i \in initial_ids : yielded[i] = 0
    /\ \A k \in 1..Len(poll_yielded) : poll_yielded[k].id \notin initial_ids

\* a poll is over whose snapshot held a record of the initial snapshot's id
\* that satisfies a status filter, and another record was yielded
C4_Witness ==
    /\ pc = "sleep"
    /\ filters.status # None
    /\ poll_yielded # <<>>
    /\ \E k \in 1..Len(requests) :
         /\ requests[k].id \in initial_ids
         /\ Satisfies(requests[k], filters, now)

(* C5: the records yielded from a poll are exactly the records of the      *)
(* polled snapshot whose id was absent from the seen set when the snapshot *)
(* was fetched and that satisfy every present predicate, in the order the  *)
(* source returned them.                                                   *)
C5_PollYieldsNewMatching ==
    /\ pc = "yield" => IsPrefix(poll_yielded, NewMatching) /\ poll_yielded # NewMatching
    /\ pc = "sleep" => poll_yielded = NewMatching

\* a poll is over that yielded one record of a snapshot of two, the other
\* being new as well but failing a filter
C5_Witness ==
    /\ pc = "sleep"
    /\ Len(poll_yielded) = 1
    /\ Len(requests) = 2
    /\ IdsOf(requests) \cap seen_at_fetch = {}
    /\ poll_yielded[1] = requests[2]

(* C2: get_requests returns, before the limit is applied, an ordered       *)
(* subsequence of the fetched records that holds exactly the records       *)
(* satisfying every predicate present in the filters; with no predicate    *)
(* present it holds all fetched records.                                   *)
C2_FilteredIsTheMatchingSubsequence ==
    list_pc = "done" =>
        LET Sat(r) == Satisfies(r, filters, now)
        IN  /\ list_filtered = SelectSeq(list_fetched, Sat)
            /\ IsSubSeq(list_filtered, list_fetched)
            /\ NoPredicate(filters) => list_filtered = list_fetched
            /\ filters.limit = None => list_result = list_filtered

\* a call with all four predicates present kept one of two fetched records
C2_Witness ==
    /\ list_pc = "done"
    /\ filters.status # None
    /\ filters.path_pattern # None
    /\ filters.domain # None
    /\ filters.time_window # None
    /\ Len(list_fetched) = 2
    /\ Len(list_filtered) = 1

\* the records the inspector held for the tunnel asked for
ScopedSource ==
    LET OfTunnel(r) == filters.tunnel_name # None => r.tunnel_name = Val(filters.tunnel_name)
    IN  SelectSeq(list_source, OfTunnel)

(* C3: in get_requests the limit is applied last: the repository is asked  *)
(* for all records (limit=None), the predicates are applied to the full    *)
(* list, and for a limit N >= 0 the result is the first min(N, number of   *)
(* matching records) records of the filtered sequence, in unchanged order. *)
C3_LimitAppliedLast ==
    list_pc = "done" =>
        LET Sat(r) == Satisfies(r, filters, now)
            matching == SelectSeq(ScopedSource, Sat)
        IN  /\ call = Call(None, filters.tunnel_name)
            /\ list_fetched = ScopedSource
            /\ (filters.limit # None /\ Val(filters.limit) >= 0) =>
                 /\ Len(list_result) = Min(Val(filters.limit), Len(matching))
                 /\ list_result = SubSeq(matching, 1, Len(list_result))

\* limit 1, and the one record returned is the second the inspector held:
\* limiting before filtering would have returned nothing
C3_Witness ==
    /\ list_pc = "done"
    /\ filters.limit = Some(1)
    /\ Len(list_source) = 2
    /\ list_result = <<list_source[2]>>
    /\ list_source[1] # list_source[2]

(* C6: whenever a status filter is present a record with no response is    *)
(* rejected, whatever the filter holds (all of exact, ranges, errors_only   *)
(* empty or false included), in get_requests and in tail_requests.          *)
C6_NoResponseRejected ==
    filters.status # None =>
        /\ \A k \in 1..Len(poll_yielded) : poll_yielded[k].response # None
        /\ \A k \in 1..Len(filtered) : filtered[k].response # None
        /\ \A k \in 1..Len(list_filtered) : list_filtered[k].response # None
        /\ \A k \in 1..Len(list_result) : list_result[k].response # None

\* tail_requests, under the status filter that constrains nothing, polled a
\* snapshot whose first record, new, has no response, and yielded the other
C6_Witness ==
    /\ pc = "sleep"
    /\ filters.status = Some(StatusEmpty)
    /\ Len(requests) = 2
    /\ requests[1].response = None
    /\ requests[1].id \notin seen_at_fetch
    /\ poll_yielded = <<requests[2]>>

\* the hundred-bucket of a status code, by its bounds
BucketOf(code) ==
    CASE 100 <= code /\ code <= 199 -> "1xx"
      [] 200 <= code /\ code <= 299 -> "2xx"
      [] 300 <= code /\ code <= 399 -> "3xx"
      [] 400 <= code /\ code <= 499 -> "4xx"
      [] 500 <= code /\ code <= 599 -> "5xx"

(* C7: with errors_only true matches(code) is false for every code below   *)
(* 400 whatever exact and ranges hold, so a filter that names only codes   *)
(* and buckets below 400 matches no code at all; turning errors_only on    *)
(* never makes a rejected code accepted.                                   *)
C7_ErrorsOnlyRejectsBelow400 ==
    (m_result # None /\ m_filter.errors_only) =>
        /\ m_code < 400 => Val(m_result) = FALSE
        /\ ( /\ m_filter.exact # <<>> \/ m_filter.ranges # <<>>
             /\ \A k \in 1..Len(m_filter.exact) : m_filter.exact[k] < 400
             /\ \A k \in 1..Len(m_filter.ranges) : m_filter.ranges[k] \in {"1xx", "2xx", "3xx"} )
           => Val(m_result) = FALSE
        /\ Val(m_result) => matches([m_filter EXCEPT !.errors_only = FALSE], m_code)

\* 200 is rejected by exact = [200] with errors_only
C7_Witness ==
    /\ m_filter = StatusCodeFilter(<<200>>, <<>>, TRUE)
    /\ m_code = 200
    /\ m_result = Some(FALSE)

(* C8: with errors_only false matches(code) is true iff exact and ranges   *)
(* are both empty, or code is in exact, or the code's hundred-bucket is in *)
(* ranges.                                                                 *)
C8_MatchesIsExactOrBucket ==
    (m_result # None /\ ~m_filter.errors_only) =>
        ( Val(m_result) <=>
            \/ m_filter.exact = <<>> /\ m_filter.ranges = <<>>
            \/ \E k \in 1..Len(m_filter.exact) : m_filter.exact[k] = m_code
            \/ \E k \in 1..Len(m_filter.ranges) : m_filter.ranges[k] = BucketOf(m_code) )

\* 404 is accepted by exact = [200], ranges = ["4xx"]: by the bucket alone
C8_Witness ==
    /\ m_filter = StatusCodeFilter(<<200>>, <<"4xx">>, FALSE)
    /\ m_code = 404
    /\ m_result = Some(TRUE)

(* C9: if a fetch made by tail_requests fails, the initial one or a later  *)
(* poll, the failure leaves the generator: no further fetch, no further    *)
(* record, the sequence is finished.                                       *)
C9_FetchFailureEndsTheRun ==
    [][ /\ fetch_failed' => pc' = "raised"
        /\ fetch_failed => UNCHANGED tailVars ]_vars

\* a poll failed after records had been yielded
C9_Witness ==
    /\ fetch_failed
    /\ pc = "raised"
    /\ \E i \in Ids : yielded[i] > 0

QueryAndFragmentRemoved(uri) ==
    LET cut == {i \in 1..Len(uri) : uri[i] \in {"?", "#"}}
    IN  IF cut = {} THEN uri
        ELSE SubSeq(uri, 1, (CHOOSE i \in cut : \A j \in cut : i <= j) - 1)

(* C12: the domain predicate passes a record exactly when its request has   *)
(* a Host header, the name compared without regard to letter case, whose    *)
(* first value contains the filter string without regard to letter case; a  *)
(* record with no Host header never passes.                                 *)
C12_DomainIgnoresNameCase ==
    (fn_result # None /\ fn_call.fn = "_matches_domain") =>
        LET headers == fn_call.request.request.headers
            out == Val(fn_result)
        IN  /\ out.outcome = "return"
            /\ out.value =
                 \E i \in 1..Len(headers) :
                    /\ NameLower(headers[i][1]) = "host"
                    /\ headers[i][2] # <<>>
                    /\ Contains(Lower(fn_call.domain), Lower(headers[i][2][1]))

(* C13: evaluating the path predicate fails for no pattern: a pattern with  *)
(* "*" or "?" is matched as a glob against the whole path, any other        *)
(* pattern is searched as a regular expression in the path, and one that    *)
(* is no regular expression is looked for as a literal text in the path;    *)
(* the path is the URI with its query string and its fragment removed.      *)
C13_PathPredicateNeverFails ==
    (fn_result # None /\ fn_call.fn = "_matches_path") =>
        LET path == QueryAndFragmentRemoved(fn_call.uri)
            pattern == fn_call.pattern
            out == Val(fn_result)
        IN  /\ out.outcome = "return"
            /\ out.value =
                 IF InSeq("*", pattern) \/ InSeq("?", pattern)
                 THEN fnmatch(path, pattern)
                 ELSE IF re_error(pattern)
                      THEN Contains(pattern, path)
                      ELSE re_search(pattern, path)

\* a text as typed, without the blanks around it and in lower case
Typed(text) == Lower(strip(text))

\* a bucket token: "1xx" .. "5xx"
IsBucketToken(t) ==
    Len(t) = 3 /\ t[1] \in {"1", "2", "3", "4", "5"} /\ t[2] = "x" /\ t[3] = "x"

\* an integer in 100..599, written in decimal digits; a sign before them
\* and separators between them are not held against the text
IsStatusCode(t) ==
    LET IsDigit(c) == c \in DecimalDigits
        Counts(c) == c \notin {"+", "_"}
        digits == SelectSeq(t, Counts)
    IN  /\ digits # <<>>
        /\ SelectSeq(digits, IsDigit) = digits
        /\ 100 <= IntOf(digits)
        /\ IntOf(digits) <= 599

MalformedStatus(text) == ~IsBucketToken(Typed(text)) /\ ~IsStatusCode(Typed(text))

\* not digits followed by s, m or h
MalformedSince(text) ==
    LET t == Typed(text)
    IN  ~ /\ Len(t) >= 2
          /\ t[Len(t)] \in {"s", "m", "h"}
          /\ \A i \in 1..(Len(t) - 1) : t[i] \in DecimalDigits

\* the command line carries a malformed status or time window
MalformedCommandLine ==
    \/ cli_options.status # None /\ MalformedStatus(Val(cli_options.status))
    \/ /\ cli_command = "list"
       /\ cli_options.since # None
       /\ MalformedSince(Val(cli_options.since))

Survivors ==
    LET Sat(r) == Satisfies(r, filters, now)
        kept == SelectSeq(ScopedSource, Sat)
    IN  SubSeq(kept, 1, Min(Val(filters.limit), Len(kept)))

(* C19: the list command exits with code 1 and prints no document when     *)
(* the fetch fails or when no record survives the filters and the limit;   *)
(* it prints the document and exits with code 0 only when at least one     *)
(* record survives.                                                        *)
C19_ListExitCode ==
    (cli_command = "list" /\ cli_pc \in {"built", "exit"} /\ BuiltFilters # None) =>
        /\ (cli_pc = "exit" /\ (list_pc = "raised" \/ Survivors = <<>>)) =>
              (cli_exit = Some(1) /\ ~InSeq("document", cli_stdout))
        /\ (cli_exit = Some(0) \/ InSeq("document", cli_stdout)) =>
              /\ list_pc = "done"
              /\ Survivors # <<>>
              /\ cli_exit = Some(0)
              /\ cli_stdout = <<"document">>

\* list has ended with code 1 although the source held a record: the
\* filters or the limit left none
C19_Witness ==
    /\ cli_command = "list"
    /\ cli_pc = "exit"
    /\ list_pc = "done"
    /\ list_fetched # <<>>
    /\ Survivors = <<>>
    /\ cli_exit = Some(1)

----------------------------------------------------------------------------
(* The formatter's helpers.                                                *)

\* sep is at position i of m and nowhere before it
FirstAt(sep, m, i) ==
    /\ i + Len(sep) - 1 <= Len(m)
    /\ SubSeq(m, i, i + Len(sep) - 1) = sep
    /\ \A j \in 1..(i - 1) : SubSeq(m, j, j + Len(sep) - 1) # sep

IsSuffix(s, t) == Len(s) <= Len(t) /\ SubSeq(t, Len(t) - Len(s) + 1, Len(t)) = s

WellFormedBase64(t) ==
    /\ Len(t) % 4 = 0
    /\ \A i \in 1..Len(t) :
          \/ IsB64(t[i])
          \/ t[i] = "=" /\ i >= Len(t) - 1 /\ t[Len(t)] = "="

\* C17: _decode_body never raises; an absent or empty payload gives the
\* empty text, and so does every payload that is not well-formed base64.
C17_MalformedPayloadIsEmpty ==
    (fn_call # None /\ fn_call.fn = "_decode_body" /\ fn_result # None) =>
        LET raw == fn_call.raw
            res == Val(fn_result)
        IN  /\ res.outcome = "return"
            /\ (raw = None \/ Val(raw) = <<>>) => res.value = <<>>
            /\ (raw # None /\ ~WellFormedBase64(Val(raw))) => res.value = <<>>

\* the header maps that differ from headers only in the values of the
\* sensitive headers
SecretLists == {<<>>, <<<<"s", "1">>>>, <<<<"s", "2">>, <<"s", "1">>>>}

SensitiveVariants(headers) ==
    { h \in [1..Len(headers) -> {"Authorization", "AUTHORIZATION", "cookie",
                                  "X-Api-Key", "Set-Cookie", "Accept",
                                  "Content-Type"}
                                 \X (SecretLists \cup {headers[i][2] : i \in 1..Len(headers)})] :
        \A i \in 1..Len(headers) :
            /\ h[i][1] = headers[i][1]
            /\ IF NameLower(headers[i][1]) \in SensitiveNames
               THEN h[i][2] \in SecretLists
               ELSE h[i][2] = headers[i][2] }

\* the records that differ from request only in those values
RecordVariants(request) ==
    { Exchange(request.id, request.tunnel_name, request.remote_addr,
               request.start, request.duration,
               RequestMessage(request.request.method, request.request.uri, h,
                              request.request.raw),
               resp) :
        h \in SensitiveVariants(request.request.headers),
        resp \in IF request.response = None THEN {None}
                 ELSE { Some(ResponseMessage(Val(request.response).status,
                                             Val(request.response).status_code,
                                             rh, Val(request.response).raw)) :
                          rh \in SensitiveVariants(Val(request.response).headers) } }

\* the names of the headers of a record
HeaderNames(request) ==
    {request.request.headers[i][1] : i \in 1..Len(request.request.headers)}
    \cup (IF request.response = None THEN {}
          ELSE {Val(request.response).headers[i][1] :
                  i \in 1..Len(Val(request.response).headers)})

\* C14: the output of format_request is the same for any two records that
\* differ only in the values of the headers named authorization, x-api-key,
\* cookie or set-cookie in any letter case, and every line of such a header
\* shows the mask "***" in place of a value.
C14_SensitiveValuesNeverShown ==
    (fn_call # None /\ fn_call.fn = "format_request" /\ fn_result # None) =>
        LET res == Val(fn_result)
        IN  /\ \A v \in RecordVariants(fn_call.request) :
                  format_request(v, fn_call.options) = res
            /\ res.outcome = "return" =>
                  \A i \in 1..Len(res.value) : \A name \in HeaderNames(fn_call.request) :
                      (NameLower(name) \in SensitiveNames
                       /\ res.value[i].fixed = name \o ": ") =>
                          res.value[i].text = <<"*", "*", "*">>

\* a record with a secret under "Authorization" was printed with its headers
C14_Witness ==
    /\ fn_call # None /\ fn_call.fn = "format_request"
    /\ fn_call.options.show_headers
    /\ fn_call.options.headers_filter = None
    /\ fn_call.request.request.headers # <<>>
    /\ fn_call.request.request.headers[1] = <<"Authorization", <<<<"s", "1">>>> >>
    /\ fn_result # None
    /\ Val(fn_result).outcome = "return"
    /\ \E i \in 1..Len(Val(fn_result).value) :
          Val(fn_result).value[i] = Line("Authorization: ", <<"*", "*", "*">>)

\* the first n characters of a text
FirstChars(text, n) == [i \in 1..n |-> text[i]]

\* C15: _format_body truncates exactly when truncate is set and the
\* transformed result is longer than truncate characters; the output is then
\* the first truncate characters of the result followed by a marker line
\* with the length of the untransformed body, and otherwise the whole result.
C15_TruncationKeepsFirstCharacters ==
    (fn_call # None /\ fn_call.fn = "_format_body" /\ fn_result # None
     /\ Val(fn_result).outcome = "return") =>
        LET body == fn_call.body
            truncate == fn_call.options.truncate
            result == Transformed(body, fn_call.content_type, fn_call.options).value
        IN  IF truncate # None /\ Len(result) > Val(truncate)
            THEN Val(fn_result).value =
                    FirstChars(result, Val(truncate)) \o TruncationMarker(Len(body))
            ELSE Val(fn_result).value = result

\* a body is chunked when, trimmed, it has at least two lines, the first of
\* them hex digits only and the last of them "0", each without the white
\* space around it
DetectedChunked(body) ==
    LET lines == split(strip(body), "\n")
    IN  /\ Len(lines) >= 2
        /\ strip(lines[1]) # <<>>
        /\ \A i \in 1..Len(strip(lines[1])) : strip(lines[1])[i] \in HexDigits
        /\ strip(lines[Len(lines)]) = <<"0">>

\* C18: without truncation, _format_body returns the body unchanged when
\* pretty_print is off; with pretty_print on it returns the reconstruction
\* of a chunked body whatever the content type, else the two-space
\* re-serialisation of a body that parses as JSON under a content type that
\* contains "json" in any letter case, else the body unchanged; it raises
\* no error.
C18_OneTransformationNoError ==
    (fn_call # None /\ fn_call.fn = "_format_body" /\ fn_result # None
     /\ fn_call.options.truncate = None) =>
        LET body == fn_call.body
            res == Val(fn_result)
        IN  /\ res.outcome = "return"
            /\ res.value =
                 IF ~fn_call.options.pretty_print THEN body
                 ELSE IF DetectedChunked(body) THEN _format_chunked_body(body).value
                 ELSE IF Contains(<<"j", "s", "o", "n">>, Lower(fn_call.content_type))
                         /\ json_loads(body).outcome = "value"
                 THEN json_dumps(json_loads(body).value, 0)
                 ELSE body

\* the output has a line that opens the section title
HasSection(lines, title) ==
    \E i \in 1..Len(lines) : lines[i] = Line(title, <<>>)

\* C20: for a record without a response format_request prints the status
\* "No Response" and neither a Response Headers nor a Response Body section,
\* whatever the options; a body section is there only when the body
\* extracted from the raw message is not empty.
C20_NoResponseNoResponseSections ==
    (fn_call # None /\ fn_call.fn = "format_request" /\ fn_result # None
     /\ Val(fn_result).outcome = "return") =>
        LET request == fn_call.request
            lines == Val(fn_result).value
        IN  /\ request.response = None =>
                  /\ lines[3] = Line("**Status:** No Response", <<>>)
                  /\ ~HasSection(lines, "### Response Headers")
                  /\ ~HasSection(lines, "### Response Body")
            /\ HasSection(lines, "### Request Body") =>
                  ExtractedBody(request.request.raw) # <<>>
            /\ HasSection(lines, "### Response Body") =>
                  /\ request.response # None
                  /\ ExtractedBody(Val(request.response).raw) # <<>>

\* a record without a response was printed with its request body, and one
\* whose raw message has an empty body was printed without
C20_Witness ==
    /\ fn_call # None /\ fn_call.fn = "format_request"
    /\ fn_call.request.response = None
    /\ fn_call.options.show_headers
    /\ fn_result # None
    /\ Val(fn_result).outcome = "return"
    /\ HasSection(Val(fn_result).value, "### Request Body")
    /\ HasSection(Val(fn_result).value, "### Request Headers")

\* one step of tail_requests that calls the repository from inside the loop
\* (line 73), whether the call returns or raises
LoopFetch ==
    /\ pc = "poll"
    /\ pc' \in {"yield", "sleep", "raised"}

\* C21: in tail_requests every fetch after the initial one is preceded by a
\* sleep: each iteration of the loop first sleeps and then fetches, so no
\* two fetches happen without a sleep between them.
C21_SleepBeforeEveryLoopFetch ==
    [][LoopFetch => slept]_vars

\* C22: tail_requests ignores filters.limit.  With a limit N set every poll
\* still yields every new record that satisfies the other predicates, more
\* than N of them when more than N match, and the repository is asked with
\* the tunnel name only, never with the limit.
C22_TailIgnoresLimit ==
    (filters.limit # None /\ pc \notin {"start", "raised"}) =>
        /\ call = Call(None, filters.tunnel_name)
        /\ pc = "sleep" =>
             /\ Len(poll_yielded) = Len(NewMatching)
             /\ \A k \in 1..Len(poll_yielded) : poll_yielded[k] = NewMatching[k]

\* a limit of 1 is set and one poll has yielded two records
C22_Witness ==
    /\ filters.limit = Some(1)
    /\ pc = "sleep"
    /\ Len(poll_yielded) = 2
    /\ poll_yielded[1].id # poll_yielded[2].id

\* the predicates other than the time window
OtherPredicates(r) ==
    Satisfies(r, [filters EXCEPT !.time_window = None], now)

\* C23: in one filtering pass the cutoff of the time window is computed
\* once, from one reading of the clock, and a record passes the time window
\* exactly when its start is at or after that cutoff; a record that started
\* at the cutoff itself passes.
C23_OneCutoffInclusive ==
    filters.time_window # None =>
        LET cutoff == now - to_timedelta(Val(filters.time_window))
        IN  /\ list_pc = "done" =>
                 \A k \in DOMAIN list_fetched :
                    LET r == list_fetched[k]
                    IN  OtherPredicates(r) =>
                          (InSeq(r, list_filtered) <=> r.start >= cutoff)
            /\ pc = "sleep" =>
                 \A k \in DOMAIN requests :
                    LET r == requests[k]
                    IN  (r.id \notin seen_at_fetch /\ OtherPredicates(r)) =>
                          (InSeq(r, poll_yielded) <=> r.start >= cutoff)

\* one pass kept a record that started at the cutoff and dropped an older one
C23_Witness ==
    /\ list_pc = "done"
    /\ filters.time_window # None
    /\ \E k \in DOMAIN list_filtered :
         list_filtered[k].start = now - to_timedelta(Val(filters.time_window))
    /\ \E k \in DOMAIN list_fetched :
         /\ list_fetched[k].start < now - to_timedelta(Val(filters.time_window))
         /\ ~InSeq(list_fetched[k], list_filtered)

\* the four predicate stages of _apply_filters, by name
StageNames == {"status", "path", "domain", "time"}

StageOf(name, rs) ==
    CASE name = "status" -> StatusStage(rs, filters)
      [] name = "path" -> PathStage(rs, filters)
      [] name = "domain" -> DomainStage(rs, filters)
      [] name = "time" -> TimeStage(rs, filters, now)

\* the 24 orders in which the four stages can be applied
StageOrders ==
    {o \in [1..4 -> StageNames] : \A i, j \in 1..4 : o[i] = o[j] => i = j}

InOrder(o, rs) == StageOf(o[4], StageOf(o[3], StageOf(o[2], StageOf(o[1], rs))))

MatchingHeld(id) ==
    Cardinality({k \in DOMAIN requests :
                   requests[k].id = id /\ Satisfies(requests[k], filters, now)})

YieldedIds == {i \in Ids : yielded[i] > 0}

WithoutCR(l) == rstrip_chars(l, {"\r"})

\* the line, without the white space around it, is made of hex digits only
HexOnly(l) == strip(l) # <<>> /\ \A i \in 1..Len(strip(l)) : strip(l)[i] \in HexDigits

\* what the claim has the lines from line i on contribute to the output: a
\* hex-only line nothing, a data line its payload lines, any other line
\* itself, with the carriage returns that end it when cr_kept
RECURSIVE EmittedFrom(_, _, _)
EmittedFrom(lines, i, cr_kept) ==
    IF i > Len(lines) THEN <<>>
    ELSE LET l == lines[i]
         IN  (IF HexOnly(l) THEN <<>>
              ELSE IF startswith(l, DataPrefix)
              THEN DataLine(strip(SubSeq(l, 6, Len(l)))).value
              ELSE IF cr_kept THEN <<l>> ELSE <<WithoutCR(l)>>)
             \o EmittedFrom(lines, i + 1, cr_kept)

\* the lines up to the last one that is not blank
UpToLastNonBlank(lines) ==
    LET filled == {k \in DOMAIN lines : strip(lines[k]) # <<>>}
    IN  IF filled = {} THEN <<>>
        ELSE SubSeq(lines, 1, CHOOSE k \in filled : \A j \in filled : j <= k)

\* the text has no line, or its last line is not blank
EndsWithNoBlankLine(text) ==
    text = <<>> \/ strip(split(text, "\n")[Len(split(text, "\n"))]) # <<>>

ChunkedCallReturned ==
    /\ fn_call # None
    /\ fn_call.fn = "_format_chunked_body"
    /\ fn_result # None
    /\ Val(fn_result).outcome = "return"

\* C25, as stated: the output of _format_chunked_body is the lines of the
\* input in their order, every line whose stripped content is hex digits
\* only removed (the terminal "0" included), every remaining line that does
\* not begin with "data:" emitted verbatim, and the trailing blank lines
\* removed, so that the output never ends with a blank line.
C25_LinesEmittedVerbatim ==
    ChunkedCallReturned =>
        /\ Val(fn_result).value =
             join(UpToLastNonBlank(EmittedFrom(split(fn_call.body, "\n"), 1, TRUE)), "\n")
        /\ EndsWithNoBlankLine(Val(fn_result).value)

\* C25, amended: the same, except that a remaining line is emitted without
\* the carriage returns that end it.
C25_LinesEmittedWithoutCR ==
    ChunkedCallReturned =>
        /\ Val(fn_result).value =
             join(UpToLastNonBlank(EmittedFrom(split(fn_call.body, "\n"), 1, FALSE)), "\n")
        /\ EndsWithNoBlankLine(Val(fn_result).value)

\* a body with a hex-only line, a line ended by a carriage return that is
\* emitted and a trailing blank line has been reconstructed
C25_Witness ==
    /\ ChunkedCallReturned
    /\ LET lines == split(fn_call.body, "\n")
           emitted == EmittedFrom(lines, 1, FALSE)
       IN  /\ \E k \in DOMAIN lines : HexOnly(lines[k])
           /\ \E k \in DOMAIN lines :
                /\ ~HexOnly(lines[k])
                /\ ~startswith(lines[k], DataPrefix)
                /\ WithoutCR(lines[k]) # lines[k]
                /\ strip(lines[k]) # <<>>
           /\ emitted # <<>>
           /\ strip(emitted[Len(emitted)]) = <<>>
    /\ Val(fn_result).value # <<>>

\* the header passes the allowlist: none is supplied, or the name is in it,
\* letter case ignored
PassesAllowlist(name, filter_list) ==
    filter_list = None
    \/ \E k \in DOMAIN Val(filter_list) : NameLower(Val(filter_list)[k]) = NameLower(name)

\* the header names in stored order, each passing header once for every
\* value stored under it
RECURSIVE NamePerStoredValue(_, _)
NamePerStoredValue(headers, filter_list) ==
    IF headers = <<>> THEN <<>>
    ELSE (IF PassesAllowlist(headers[1][1], filter_list)
          THEN [k \in DOMAIN headers[1][2] |-> headers[1][1]]
          ELSE <<>>)
         \o NamePerStoredValue(Tail(headers), filter_list)

\* C26: _format_headers walks the headers in stored order and emits, for
\* every header that passes the allowlist, exactly one line per stored value
\* of that header, each line starting with the header name; a header that
\* is not in a supplied allowlist emits no line.
C26_OneLinePerStoredValue ==
    (fn_call # None /\ fn_call.fn = "_format_headers" /\ fn_result # None) =>
        LET lines == Val(fn_result).value
            names == NamePerStoredValue(fn_call.headers, fn_call.filter_list)
        IN  /\ Len(lines) = Len(names)
            /\ \A k \in DOMAIN lines : lines[k].fixed = names[k] \o ": "

\* the output ends with the truncation marker that prints the count n
MarkerPrints(output, n) == IsSuffix(TruncationMarker(n), output)

\* C29: whenever _format_body truncates, the total character count printed
\* in the marker is strictly greater than the number of characters kept
\* (the truncate value), for every body, content type and pretty_print
\* setting.
C29_PrintedTotalExceedsKept ==
    (fn_call # None /\ fn_call.fn = "_format_body" /\ fn_result # None
     /\ Val(fn_result).outcome = "return" /\ fn_call.options.truncate # None) =>
        LET output == Val(fn_result).value
        IN  \A n \in 0..(Len(fn_call.body) + Len(output)) :
               MarkerPrints(output, n) => n > Val(fn_call.options.truncate)

\* the text is a figure with two decimals: digits, a point, two digits
IsTwoDecimalFigure(text) ==
    /\ Len(text) >= 4
    /\ text[Len(text) - 2] = "."
    /\ \A i \in (1..Len(text)) \ {Len(text) - 2} : text[i] \in DecimalDigits
    /\ Len(text) > 4 => text[1] # "0"

\* the text is a whole number from 1 to 999, written without leading zeros
IsWholeBelowThousand(text) ==
    /\ Len(text) \in 1..3
    /\ \A i \in 1..Len(text) : text[i] \in DecimalDigits
    /\ text[1] # "0"

\* the output is the figure followed by the unit
FigureBefore(output, unit) ==
    SubSeq(output, 1, Len(output) - Len(unit))

\* C30: _format_duration chooses the unit by threshold and the printed
\* figure stays inside the range of the unit: under 1,000,000 ns it prints
\* microseconds with two decimals and a figure below 1000.00, from
\* 1,000,000 ns up to but excluding 1,000,000,000 ns a whole number of
\* milliseconds between 1 and 999, and from there on seconds with two
\* decimals.
C30_FigureStaysInsideUnitRange ==
    (fn_call # None /\ fn_call.fn = "_format_duration" /\ fn_result # None) =>
        LET output == Val(fn_result).value
            ns == fn_call.nanoseconds
        IN  IF ns < 1000000
            THEN /\ IsSuffix(<<"U+00B5", "s">>, output)
                 /\ IsTwoDecimalFigure(FigureBefore(output, <<"U+00B5", "s">>))
                 /\ Len(FigureBefore(output, <<"U+00B5", "s">>)) <= 6
            ELSE IF ns < 1000000000
            THEN /\ IsSuffix(<<"m", "s">>, output)
                 /\ IsWholeBelowThousand(FigureBefore(output, <<"m", "s">>))
            ELSE /\ IsSuffix(<<"s">>, output)
                 /\ IsTwoDecimalFigure(FigureBefore(output, <<"s">>))
                 /\ FigureBefore(output, <<"s">>)[1] # "0"

====
